---- MODULE Spec2Model ----
(***************************************************************************)
(* Model of kadoh/eventually: Event / EventEmitter (lib/eventemitter.js),  *)
(* StateEventEmitter and Promise (lib/state-eventemitter.js) and           *)
(* IterativePromise (unnamed/part_000).                                    *)
(*                                                                         *)
(* JavaScript runs every call to completion, so one action is one call     *)
(* made by the environment (the code using the library) together with      *)
(* everything that call triggers synchronously: listeners fired, the       *)
(* reduce and end functions, keys fed forward, promises settled on the     *)
(* way.  The operators below take the whole program state as a record w    *)
(* (the "world") and return the world after the modelled function ran.     *)
(***************************************************************************)
EXTENDS Integers, Sequences, FiniteSets, TLC

\* ---------------------------------------------------------------- bounds
MaxKey == 2       \* keys are 0..MaxKey
MaxInitLen == 2   \* longest initial key sequence given to start / constructor
MaxSpies == 1     \* observer handlers registered through addCallback/addErrback

Keys == 0 .. MaxKey
NoKey == 0 - 1
IP == MaxKey + 1                 \* heap address of the IterativePromise
Pids == 0 .. IP                  \* mapped promise of key k lives at address k

VARIABLES
  heap,      \* Promise objects: state, own resolve/reject override, _events
  ip,        \* the IterativePromise's own fields
  trace,     \* what the last call did, in order (instrumentation)
  obs,       \* cumulative observations (instrumentation)
  thrown     \* TRUE iff the last call raised an exception to its caller

vars == <<heap, ip, trace, obs, thrown>>

\* ---------------------------------------------------------------- values
Undefined == <<"undefined">>          \* the JS value undefined, as a string-like sequence
Val(k) == "r" \o ToString(k)          \* the value the environment resolves key k's promise with
ResolveArgs(k) == <<Val(k)>>
RejectArgs(k) == <<"err">>
\* JS truthiness of an initial reduce value: '' and undefined are falsy
Truthy(v) == v # <<>> /\ v # Undefined

\* what a mapping function can return for a key: nothing, a falsy plain value,
\* a truthy plain value, a pending promise, an already rejected promise
MapReturns == {"undefined", "falsy", "value", "pending", "rejected"}

\* ---------------------------------------------------------------- Event (lib/eventemitter.js)
NewEvent == [listeners |-> <<>>, disabled |-> FALSE, fired |-> FALSE, firedArgs |-> <<>>]

NewPromise ==
  [state |-> "progress", deactivated |-> FALSE,
   events |-> [resolved |-> NewEvent, rejected |-> NewEvent]]

NoPromise ==
  [state |-> "none", deactivated |-> FALSE,
   events |-> [resolved |-> NewEvent, rejected |-> NewEvent]]

\* functions given as handlers: an observer of the environment, the callback
\* and errback closures of _launchMap (id = key), the closures pipe builds
\* (id = the promise pipe returns), and promise.resolve / promise.reject read
\* off a promise as values
Handler(type, id) == [type |-> type, id |-> id, action |-> "none", fn |-> "none", aux |-> 0 - 1]
NoHandler == Handler("undefined", 0)
Spy(n) == Handler("spy", n)
CallbackOf(k) == Handler("callback", k)
ErrbackOf(k) == Handler("errback", k)
PipeOf(q, action, fn, r) == [type |-> "pipe", id |-> q, action |-> action, fn |-> fn, aux |-> r]

RemoveAt(s, i) == [j \in 1 .. (Len(s) - 1) |-> IF j < i THEN s[j] ELSE s[j + 1]]

\* a trace entry: the event and the IterativePromise's fields at that instant
Log(w, name, key, flag) ==
  [w EXCEPT !.trace = Append(@,
     [ev |-> name, key |-> key, flag |-> flag,
      onFly |-> w.ip._onFly,
      buf |-> Len(w.ip._reduceBuffer),
      completed |-> w.heap[IP].state \in {"resolved", "rejected"},
      acc |-> w.ip._currentReduceResult,
      mapped |-> w.ip._mapped,
      resolved |-> w.ip._resolved,
      rejected |-> w.ip._rejected,
      pending |-> {k \in Keys : w.heap[k].state = "progress"}])]

\* the trace entry for an invocation of the mapping function, with the kind
\* of value it returns
LogMap(w, key, returned) ==
  LET w1 == Log(w, "mapFn", key, FALSE)
  IN [w1 EXCEPT !.trace[Len(w1.trace)] = @ @@ [returned |-> returned]]

Throw(w) == [w EXCEPT !.thrown = TRUE]

\* receivers of handlers: no context given (undefined), and an object of the
\* caller's (var that = {})
NoContext == 0 - 2
That == IP + 1

\* a trace entry for the invocation of an observer: its receiver and arguments
LogCall(w, id, context, args) ==
  [w EXCEPT !.trace = Append(@, [ev |-> "handler", key |-> id, flag |-> FALSE,
                                 ctx |-> context, args |-> args])]

\* a trace entry for the run of a closure built by pipe: the promise pipe
\* returned, the branch, what the user's function is or returns, the arguments
LogPipe(w, h, args) ==
  [w EXCEPT !.trace = Append(@, [ev |-> "pipe", key |-> h.id, flag |-> FALSE,
                                 action |-> h.action, fn |-> h.fn, args |-> args])]

\* a call of one of the functions that call each other (defined below)
RECURSIVE Invoke(_, _, _)
RECURSIVE FireLoop(_, _, _, _)

\* the options of a listener: once, unshift, errorCb
Options(once, unshift, errorCb) == [once |-> once, unshift |-> unshift, errorCb |-> errorCb]
NoOptions == Options(FALSE, FALSE, FALSE)

\* the listener object built by addListener
Listener(handler, context, options) ==
  [handler |-> handler, context |-> context, once |-> options.once,
   unshift |-> options.unshift, errorCb |-> options.errorCb]

\* Event.prototype.addListener inserting at the front (unshift)
addListenerFront(w, p, type, handler, context, options) ==
  [w EXCEPT !.heap[p].events[type].listeners =
     <<Listener(handler, context, options)>> \o @]

\* Event.prototype.addListener: unshift or push
addListener(w, p, type, handler, context, options) ==
  IF Listener(handler, context, options).unshift
    THEN [w EXCEPT !.heap[p].events[type].listeners =
            <<Listener(handler, context, options)>> \o @]
    ELSE [w EXCEPT !.heap[p].events[type].listeners =
            Append(@, Listener(handler, context, options))]

\* events[type] = new Event(this), when the object has no event of that type
EventOf(w, p, type) ==
  IF type \in DOMAIN w.heap[p].events THEN w
  ELSE [w EXCEPT !.heap[p].events = (type :> NewEvent) @@ @]

\* EventEmitter.prototype.on: the event is created when it does not exist, and
\* the listener is added only when handler is a function, with the context
\* `context || this`
on(w, p, type, handler, context, options) ==
  IF handler.type = "undefined" THEN EventOf(w, p, type)
  ELSE addListener(EventOf(w, p, type), p, type, handler,
                   IF context = NoContext THEN p ELSE context, options)

\* EventEmitter.prototype.once
once(w, p, type, handler, context, options) ==
  on(w, p, type, handler, context, [options EXCEPT !.once = TRUE])

\* the copy of Event.prototype.execute an object runs: the one of
\* lib/eventemitter.js unless the object was built from unnamed/part_001
Lib == "lib/eventemitter.js"
Part1 == "unnamed/part_001"
BuildOf(w, p) == IF "build" \in DOMAIN w.heap[p] THEN w.heap[p].build ELSE Lib

\* the error a call is raising: the one thrown last (a TypeError when the
\* throw was not recorded)
LastError(q) ==
  LET throws == {i \in 1 .. Len(q) : q[i].ev = "throw"}
  IN IF throws = {} THEN "TypeError"
     ELSE q[CHOOSE i \in throws : \A i2 \in throws : i2 <= i].error

\* throw error
LogThrow(w, id, error) ==
  [w EXCEPT !.thrown = TRUE,
            !.trace = Append(@, [ev |-> "throw", key |-> id, flag |-> FALSE, error |-> error])]

\* listener.errorCb(e)
errorCb(w, listener, e) ==
  [w EXCEPT !.thrown = FALSE,
            !.trace = Append(@, [ev |-> "errorCb", key |-> listener.handler.id,
                                 flag |-> FALSE, error |-> e])]

\* the catch block of Event.prototype.execute; r is the program state when
\* the handler has returned or thrown.  In unnamed/part_001 the block starts
\* with this.ee._events.error.listeners, a TypeError when the object has no
\* 'error' event
Catch(r, p, listener) ==
  IF ~r.thrown THEN r
  ELSE IF "error" \notin DOMAIN r.heap[p].events
    THEN IF BuildOf(r, p) = Part1 THEN LogThrow(r, listener.handler.id, "TypeError")
         ELSE IF listener.errorCb THEN errorCb(r, listener, LastError(r.trace))
         ELSE r
  ELSE IF listener.errorCb THEN errorCb(r, listener, LastError(r.trace))
  ELSE IF Len(r.heap[p].events["error"].listeners) > 0
    THEN Invoke([r EXCEPT !.thrown = FALSE], "emit", <<p, "error", <<LastError(r.trace)>>>>)
  ELSE r

\* Event.prototype.execute: apply the handler to firedArgs; an exception goes
\* to the listener's errorCb, else to the 'error' listeners, else is rethrown
execute(w, p, type, listener) ==
  Catch(Invoke(w, "handler", <<listener.handler, listener.context,
                               w.heap[p].events[type].firedArgs>>),
        p, listener)

\* the loop of Event.prototype.fire: a once listener is spliced out of the
\* list before it is executed, and i is incremented all the same
FireLoop(w, p, type, i) ==
  IF w.thrown \/ i > Len(w.heap[p].events[type].listeners) THEN w
  ELSE LET listener == w.heap[p].events[type].listeners[i]
           w1 == IF listener.once
                   THEN [w EXCEPT !.heap[p].events[type].listeners = RemoveAt(@, i)]
                   ELSE w
       IN FireLoop(execute(w1, p, type, listener), p, type, i + 1)

\* Event.prototype.fire
fire(w, p, type, args) ==
  IF w.heap[p].events[type].disabled THEN w
  ELSE FireLoop([w EXCEPT !.heap[p].events[type].fired = TRUE,
                          !.heap[p].events[type].firedArgs = args],
                p, type, 1)

\* the second half of EventEmitter.prototype.emit: fire the event if it exists
emitType(w, p, type, args) ==
  IF w.thrown \/ type \notin DOMAIN w.heap[p].events THEN w
  ELSE fire(w, p, type, args)

\* EventEmitter.prototype.emit: '__any__' is fired first, with the type and
\* the arguments, when the object has this event
emit(w, p, type, args) ==
  IF "__any__" \in DOMAIN w.heap[p].events
    THEN emitType(fire(w, p, "__any__", <<type>> \o args), p, type, args)
    ELSE emitType(w, p, type, args)

\* the loop of Event.prototype.removeListener(handler, context): a matching
\* listener is spliced out of the list, and i is incremented all the same
RECURSIVE RemoveLoop(_, _, _, _)
RemoveLoop(listeners, handler, context, i) ==
  IF i > Len(listeners) THEN listeners
  ELSE IF /\ listeners[i].handler = handler
          /\ (context = NoContext \/ listeners[i].context = context)
    THEN RemoveLoop(RemoveAt(listeners, i), handler, context, i + 1)
    ELSE RemoveLoop(listeners, handler, context, i + 1)

\* Event.prototype.removeListener with a handler (with a number: RemoveAt)
removeListener(w, p, type, handler, context) ==
  [w EXCEPT !.heap[p].events[type].listeners = RemoveLoop(@, handler, context, 1)]

\* EventEmitter.prototype.off
off(w, p, type, handler, context) ==
  IF type \in DOMAIN w.heap[p].events
    THEN removeListener(w, p, type, handler, context)
    ELSE w

\* ---------------------------------------------------------------- StateEventEmitter
\* the JS value null of this.state (a state is a string otherwise)
Null == "none"

\* String(state)
String(v) == IF v = Null THEN "null" ELSE v

\* seeLazyInit: if (!see.state) see.state = null; the empty string is falsy
seeLazyInit(w, p) ==
  IF w.heap[p].state = "" THEN [w EXCEPT !.heap[p].state = Null] ELSE w

\* StateEventEmitter.prototype.setStateSilently
setStateSilently(w, p, state) == [w EXCEPT !.heap[p].state = String(state)]

\* this.emit('state_change', state), reached when this.emit.apply(this,
\* arguments) has returned
emitStateChange(w, p, state) ==
  IF w.thrown THEN w ELSE emit(w, p, "state_change", <<state>>)

\* StateEventEmitter.prototype.setState: nothing when the state is unchanged
setState(w, p, state, args) ==
  IF seeLazyInit(w, p).heap[p].state # state
    THEN emitStateChange(emit(setStateSilently(w, p, state), p, state, args), p, state)
    ELSE seeLazyInit(w, p)

\* ---------------------------------------------------------------- Promise
isCompleted(w, p) == w.heap[p].state \in {"resolved", "rejected"}
isResolved(w, p) == w.heap[p].state = "resolved"
isRejected(w, p) == w.heap[p].state = "rejected"

disable(w, p, type) == [w EXCEPT !.heap[p].events[type].disabled = TRUE]

\* Promise.prototype._complete
_complete(w, p, state, args) ==
  LET w1 == [w EXCEPT !.heap[p].deactivated = TRUE]
      w2 == setState(w1, p, state, args)
  IN IF w2.thrown THEN w2
     ELSE disable(disable(w2, p, "rejected"), p, "resolved")

\* remember the first resolve/reject call made on p, and whether another
\* call followed it (instrumentation)
NoteCall(w, p, kind, args) ==
  IF w.obs.first[p].called THEN [w EXCEPT !.obs.first[p].again = TRUE]
  ELSE [w EXCEPT !.obs.first[p] =
          [called |-> TRUE, kind |-> kind, args |-> args, again |-> FALSE]]

\* p.resolve(args) / p.reject(args) looked up on the object: after _complete
\* the object's own resolve and reject are functions that do nothing
resolve(w, p, args) ==
  LET w1 == NoteCall(w, p, "resolved", args)
  IN IF w.heap[p].deactivated THEN w1
     ELSE Invoke(w1, "_complete", <<p, "resolved", args>>)

reject(w, p, args) ==
  LET w1 == NoteCall(w, p, "rejected", args)
  IN IF w.heap[p].deactivated THEN w1
     ELSE Invoke(w1, "_complete", <<p, "rejected", args>>)

\* Promise.prototype.cancel
cancel(w, p) ==
  LET w1 == disable(disable(w, p, "rejected"), p, "resolved")
  IN IF w.obs.first[p].called THEN w1
     ELSE [w1 EXCEPT !.obs.cancelled[p] = TRUE]

\* Promise.prototype.addErrback, registering on the wrong event
addErrbackOnResolved(w, p, errback, context) ==
  IF ~isCompleted(w, p)
    THEN on(w, p, "resolved", errback, IF context = NoContext THEN p ELSE context, NoOptions)
  ELSE IF isRejected(w, p)
    THEN execute(w, p, "rejected", Listener(errback, context, NoOptions))
    ELSE w

\* Promise.prototype.addCallback
addCallback(w, p, callback, context) ==
  IF ~isCompleted(w, p)
    THEN on(w, p, "resolved", callback, IF context = NoContext THEN p ELSE context, NoOptions)
  ELSE IF isResolved(w, p)
    THEN execute(w, p, "resolved", Listener(callback, context, NoOptions))
    ELSE w

\* Promise.prototype.addErrback
addErrback(w, p, errback, context) ==
  IF ~isCompleted(w, p)
    THEN on(w, p, "rejected", errback, IF context = NoContext THEN p ELSE context, NoOptions)
  ELSE IF isRejected(w, p)
    THEN execute(w, p, "rejected", Listener(errback, context, NoOptions))
    ELSE w

\* Promise.prototype.then (the progress handler is not modelled)
then(w, p, callback, errback, context) ==
  LET w1 == addCallback(w, p, callback, context)
  IN IF w1.thrown THEN w1 ELSE addErrback(w1, p, errback, context)

\* Promise.when: a promise is returned as it is, a plain value becomes
\* new Promise().resolve(value)
when(w, p, isPromise, value) ==
  IF isPromise THEN w
  ELSE resolve([w EXCEPT !.heap[p] = NewPromise], p, <<value>>)

\* promise.resolve / promise.reject read as a value: the prototype's function
\* while the promise has not completed, its own do-nothing function afterwards
Captured(w, q, action) ==
  IF w.heap[q].deactivated THEN Handler("noop", q)
  ELSE [Handler("proto", q) EXCEPT !.action = action]

\* promise[action](args)
Act(w, q, action, args) ==
  IF action = "resolve" THEN resolve(w, q, args) ELSE reject(w, q, args)

\* a closure built by pipe that resolves with an Error-typed return value
pipesErrorResolves(w, h, args) ==
  CASE h.fn = "none" -> Act(w, h.id, h.action, args)
    [] h.fn = "undefined" -> Act(w, h.id, h.action, <<>>)
    [] h.fn = "promise" ->
         then(w, h.aux, Captured(w, h.id, "resolve"), Captured(w, h.id, "reject"), h.id)
    [] OTHER -> resolve(w, h.id, <<h.fn>>)

\* a closure built by pipe that passes a settlement through without its arguments
pipesDropArguments(w, h, args) ==
  CASE h.fn = "none" -> Act(w, h.id, h.action, <<>>)
    [] h.fn = "undefined" -> Act(w, h.id, h.action, <<>>)
    [] h.fn = "promise" ->
         then(w, h.aux, Captured(w, h.id, "resolve"), Captured(w, h.id, "reject"), h.id)
    [] h.fn = "error" -> reject(w, h.id, <<"error">>)
    [] OTHER -> resolve(w, h.id, <<"value">>)

\* a closure built by pipe that takes a returned promise for a plain value
pipesNoAdoption(w, h, args) ==
  CASE h.fn = "none" -> Act(w, h.id, h.action, args)
    [] h.fn = "undefined" -> Act(w, h.id, h.action, <<>>)
    [] h.fn = "error" -> reject(w, h.id, <<"error">>)
    [] OTHER -> resolve(w, h.id, <<"value">>)

\* a closure built by pipe runs: fn is what the user's function for this
\* branch is or returns; aux is the promise it returns when it returns one
pipes(w, h, args) ==
  CASE h.fn = "none" -> Act(w, h.id, h.action, args)
    [] h.fn = "undefined" -> Act(w, h.id, h.action, <<>>)
    [] h.fn = "promise" ->
         then(w, h.aux, Captured(w, h.id, "resolve"), Captured(w, h.id, "reject"), h.id)
    [] h.fn = "error" -> reject(w, h.id, <<"error">>)
    [] OTHER -> resolve(w, h.id, <<"value">>)

\* Promise.prototype.pipe; q is the address of the promise it creates
pipe(w, p, q, callback, errback, r) ==
  LET w1 == [w EXCEPT !.heap[q] = NewPromise]
  IN then(w1, p, PipeOf(q, "resolve", callback, r), PipeOf(q, "reject", errback, r), p)

\* ---------------------------------------------------------------- combinators
\* the promise whenSome / whenMap returns, and the scope object holding the
\* variables its closures share (resolved, rejected, toResolve, ...)
Res == IP
Scope == IP + 3

Min(a, b) == IF a < b THEN a ELSE b
Max(a, b) == IF a < b THEN b ELSE a

Success(k) == Handler("success", k)
Failure(k) == Handler("failure", k)
MapSuccess(k) == Handler("mapSuccess", k)

\* function success(promise) of whenSome, run for the input k
success(w, k) ==
  LET w1 == [w EXCEPT !.heap[Scope].resolved = Append(@, k),
                      !.heap[Scope].toResolve = @ - 1]
  IN IF w1.heap[Scope].toResolve = 0
       THEN resolve(w1, Res, <<w1.heap[Scope].resolved, w1.heap[Scope].rejected>>)
       ELSE w1

\* function failure(promise) of whenSome rejecting one rejection early
failureEarly(w, k) ==
  LET w1 == [w EXCEPT !.heap[Scope].rejected = Append(@, k),
                      !.heap[Scope].notToReject = @ - 1]
  IN IF w1.heap[Scope].notToReject = 0
       THEN reject(w1, Res, <<w1.heap[Scope].resolved, w1.heap[Scope].rejected>>)
       ELSE w1

\* function failure(promise) of whenSome: notToReject-- === 0 tests the
\* value before the decrement
failure(w, k) ==
  LET w1 == [w EXCEPT !.heap[Scope].rejected = Append(@, k),
                      !.heap[Scope].notToReject = @ - 1]
  IN IF w.heap[Scope].notToReject = 0
       THEN reject(w1, Res, <<w1.heap[Scope].resolved, w1.heap[Scope].rejected>>)
       ELSE w1

\* for (i ...) Promise.when(promises[i]).then(success(promises[i]),
\* failure(promises[i]), res.progress): the last argument being a function,
\* the context is the input promise
RECURSIVE SomeLoop(_, _, _)
SomeLoop(w, promises, i) ==
  IF w.thrown \/ i > Len(promises) THEN w
  ELSE SomeLoop(then(when(w, promises[i], TRUE, Val(promises[i])), promises[i],
                     Success(promises[i]), Failure(promises[i]), promises[i]),
                promises, i + 1)

\* Promise.whenSome
whenSome(w, promises, toResolve) ==
  LET n == Max(0, Min(toResolve, Len(promises)))
      w1 == [w EXCEPT !.heap[Res] = NewPromise,
                      !.heap[Scope] = [promises |-> promises, resolved |-> <<>>,
                                       rejected |-> <<>>, toResolve |-> n,
                                       notToReject |-> Len(promises) - n,
                                       results |-> <<>>, total |-> 0]]
  IN IF n = 0 THEN resolve(w1, Res, <<<<>>, <<>>>>)
     ELSE SomeLoop(w1, promises, 1)

\* Promise.whenAll
whenAll(w, promises) == whenSome(w, promises, Len(promises))

\* the map function of the test: value + '_bar'
mapBar(args) == args[1] \o "_bar"

\* promises.indexOf(promise)
indexOf(promises, k) ==
  IF \E i \in 1 .. Len(promises) : promises[i] = k
    THEN CHOOSE i \in 1 .. Len(promises) :
           promises[i] = k /\ \A j \in 1 .. (i - 1) : promises[j] # k
    ELSE 0

\* function success(promise) of whenMap, run for the input k
mapSuccess(w, k, args) ==
  LET index == indexOf(w.heap[Scope].promises, k)
      w1 == [w EXCEPT !.heap[Scope].results[index] = mapBar(args),
                      !.heap[Scope].total = @ - 1]
  IN IF w1.heap[Scope].total = 0
       THEN resolve(w1, Res, <<w1.heap[Scope].results>>)
       ELSE w1

\* for (i ...) Promise.when(promises[i]).then(success(promises[i]), res.reject,
\* res.progress): res.reject is read off res and registered with the input
\* promise as context
RECURSIVE MapLoop(_, _, _)
MapLoop(w, promises, i) ==
  IF w.thrown \/ i > Len(promises) THEN w
  ELSE MapLoop(then(when(w, promises[i], TRUE, Val(promises[i])), promises[i],
                    MapSuccess(promises[i]), Captured(w, Res, "reject"), promises[i]),
               promises, i + 1)

\* Promise.whenMap; an index of results not assigned yet holds "empty"
whenMap(w, promises) ==
  MapLoop([w EXCEPT !.heap[Res] = NewPromise,
                    !.heap[Scope] = [promises |-> promises, resolved |-> <<>>,
                                     rejected |-> <<>>, toResolve |-> 0,
                                     notToReject |-> 0,
                                     results |-> [i \in 1 .. Len(promises) |-> "empty"],
                                     total |-> Len(promises)]],
          promises, 1)

\* ---------------------------------------------------------------- IterativePromise
NoArray == <<NoKey>>                 \* to_map when no array was given (undefined)
Manual == <<"manual">>               \* value the reduce/end function settles the process with

\* keys 0 and 1 are numbers; a key k >= 2 is an object with an equals method
\* that compares the number k - 2 it wraps with the other key's number
IsObj(k) == k >= 2
KeyId(k) == IF IsObj(k) THEN k - 2 ELSE k

\* IterativePromise.prototype.equalTestFn
equalTestFn(key1, key2) ==
  IF IsObj(key1) THEN KeyId(key1) = KeyId(key2) ELSE key1 = key2

\* IterativePromise.prototype._checkFinish
_checkFinish(w) ==
  LET finish == /\ w.ip._onFly = 0
                /\ Len(w.ip._reduceBuffer) = 0
                /\ ~isCompleted(w, IP)
  IN IF finish THEN Invoke(w, "_launchEnd", <<>>) ELSE w

\* function callback() in _launchMap, without the test of isCompleted
callbackUnchecked(w, key, args) ==
  Invoke([w EXCEPT !.ip._onFly = @ - 1, !.ip._resolved = Append(@, key)],
         "_launchReduce", <<key, args>>)

\* function callback() in _launchMap, decrementing _onFly twice
callbackDecrementsTwice(w, key, args) ==
  LET w1 == [w EXCEPT !.ip._onFly = @ - 2]
  IN IF ~isCompleted(w1, IP)
       THEN Invoke([w1 EXCEPT !.ip._resolved = Append(@, key)],
                   "_launchReduce", <<key, args>>)
       ELSE w1

\* function callback() in _launchMap
callback(w, key, args) ==
  LET w1 == [w EXCEPT !.ip._onFly = @ - 1]
  IN IF ~isCompleted(w1, IP)
       THEN Invoke([w1 EXCEPT !.ip._resolved = Append(@, key)],
                   "_launchReduce", <<key, args>>)
       ELSE w1

\* function errback() in _launchMap, forgetting to record the key
errbackForgetful(w, key, args) ==
  LET w1 == Log([w EXCEPT !.ip._onFly = @ - 1], "errback", key, FALSE)
  IN IF ~isCompleted(w1, IP)
       THEN _checkFinish(Log(w1, "errbackCheck", key, FALSE))
       ELSE w1

\* function errback() in _launchMap, without this._onFly --
errbackNoDecrement(w, key, args) ==
  LET w1 == Log(w, "errback", key, FALSE)
  IN IF ~isCompleted(w1, IP)
       THEN _checkFinish(Log([w1 EXCEPT !.ip._rejected = Append(@, key)],
                             "errbackCheck", key, FALSE))
       ELSE w1

\* function errback() in _launchMap
errback(w, key, args) ==
  LET w1 == Log([w EXCEPT !.ip._onFly = @ - 1], "errback", key, FALSE)
  IN IF ~isCompleted(w1, IP)
       THEN _checkFinish(Log([w1 EXCEPT !.ip._rejected = Append(@, key)],
                             "errbackCheck", key, FALSE))
       ELSE w1

\* a trace entry for the invocation of a listener that reads this.state of
\* its receiver
LogState(w, id, context, args) ==
  [w EXCEPT !.trace = Append(@, [ev |-> "handler", key |-> id, flag |-> FALSE,
                                 ctx |-> context, args |-> args,
                                 state |-> w.heap[context].state])]

\* the error a throwing listener of the environment throws
ErrorOf(id) == "e" \o ToString(id)

\* Promise.prototype.resolve / reject applied as a plain function: this is
\* the listener's context, this._complete(state, arguments)
protoAct(w, handler, context, args) ==
  IF context \notin DOMAIN w.obs.first THEN Throw(w)
  ELSE Invoke(NoteCall(w, context, IF handler.action = "resolve"
                                     THEN "resolved" ELSE "rejected", args),
              "_complete",
              <<context,
                IF handler.action = "resolve" THEN "resolved" ELSE "rejected", args>>)

\* listener.handler.apply(listener.context, firedArgs)
RunHandler(w, handler, context, args) ==
  CASE handler.type = "spy" ->
         LogCall([w EXCEPT !.obs.spies[handler.id].calls = Append(@, args)],
                 handler.id, context, args)
    [] handler.type = "callback" -> callback(w, handler.id, args)
    [] handler.type = "errback" -> errback(w, handler.id, args)
    [] handler.type = "pipe" -> pipes(LogPipe(w, handler, args), handler, args)
    [] handler.type = "proto" -> protoAct(w, handler, context, args)
    [] handler.type = "success" -> success(w, handler.id)
    [] handler.type = "failure" -> failure(w, handler.id)
    [] handler.type = "mapSuccess" -> mapSuccess(w, handler.id, args)
    [] handler.type = "noop" -> w
    [] handler.type = "listener" -> LogCall(w, handler.id, context, args)
    [] handler.type = "thrower" ->
         LogThrow(LogCall(w, handler.id, context, args), handler.id, ErrorOf(handler.id))
    [] handler.type = "reader" -> LogState(w, handler.id, context, args)
    [] OTHER -> Throw(w)

\* the user's mapping function: what it returns for a key is w.env.mk; a
\* promise it returns is the promise at address key
mapFn(w, key) ==
  LET w1 == LogMap([w EXCEPT !.obs.mapCalls = Append(@, key)], key, w.env.mk)
      w2 == [w1 EXCEPT !.heap[key] = NewPromise, !.obs.owned = @ \cup {key}]
  IN CASE w.env.mk = "pending" -> w2
       [] w.env.mk = "rejected" -> reject(w2, key, RejectArgs(key))
       [] OTHER -> w1

\* the test with its arguments swapped: equalTestFn(key2, key)
alreadySwapped(w, key) ==
  \E i \in 1 .. Len(w.ip._mapped) : equalTestFn(w.ip._mapped[i], key)

\* var already = this._mapped.some(function(key2) { return this.equalTestFn(key, key2) })
already(w, key) ==
  \E i \in 1 .. Len(w.ip._mapped) : equalTestFn(key, w.ip._mapped[i])

\* IterativePromise.prototype._launchMap
_launchMap(w, key) ==
  LET w0 == Log(w, "launchMap", key, FALSE)
  IN IF already(w, key) THEN Log(w0, "launchMapRet", key, FALSE)
     ELSE
       LET w1 == [w0 EXCEPT !.ip._mapped = Append(@, key)]
       IN IF w1.ip.mapFn # "function" THEN Throw(w1)
          ELSE
            LET w2 == mapFn(w1, key)
            IN IF w.env.mk \in {"undefined", "falsy"} THEN Log(w2, "launchMapRet", key, TRUE)
               ELSE
                 LET w3 == when(w2, key, w.env.mk # "value", Val(key))
                     w4 == [w3 EXCEPT !.ip._onFly = @ + 1]
                     w5 == then(w4, key, CallbackOf(key), ErrbackOf(key), IP)
                 IN IF w5.thrown THEN w5 ELSE Log(w5, "launchMapRet", key, TRUE)

\* the user's function settling the process itself: this.resolve / this.reject
SettleBy(w, how) ==
  CASE how = "resolve" -> resolve(w, IP, <<Manual>>)
    [] how = "reject" -> reject(w, IP, <<Manual>>)
    [] OTHER -> w

\* the user's reduce function, as far as it acts on the process: it may call
\* map(feed), may settle the process, and returns prev + result
reduceFn(w, key) ==
  LET f == w.env.rb
      w1 == IF f.feed # NoKey THEN Invoke(w, "_launchMap", <<f.feed>>) ELSE w
      w2 == IF Len(w1.obs.mapCalls) > Len(w.obs.mapCalls)
              THEN [w1 EXCEPT !.obs.reduceFed = @ \cup {f.feed}]
              ELSE w1
  IN IF w2.thrown THEN w2 ELSE SettleBy(w2, f.settle)

\* _launchReduce dropping a result that comes before the reduce function
_launchReduceUnbuffered(w, key, result) ==
  IF w.ip.reduceFn # "function" THEN w
    ELSE
      LET prev == w.ip._currentReduceResult
          w1 == Log(w, "reduce", key, FALSE)
          w2 == reduceFn(w1, key)
      IN IF w2.thrown THEN w2
         ELSE _checkFinish(Log([w2 EXCEPT !.ip._currentReduceResult = prev \o result],
                               "reduceRet", key, FALSE))

\* IterativePromise.prototype._launchReduce
_launchReduce(w, key, result) ==
  IF w.ip.reduceFn # "function"
    THEN [w EXCEPT !.ip._reduceBuffer = Append(@, [key |-> key, result |-> result])]
    ELSE
      LET prev == w.ip._currentReduceResult
          w1 == Log(w, "reduce", key, FALSE)
          w2 == reduceFn(w1, key)
      IN IF w2.thrown THEN w2
         ELSE _checkFinish(Log([w2 EXCEPT !.ip._currentReduceResult = prev \o result],
                               "reduceRet", key, FALSE))

\* var map = function(key) { toMap.push(key); } in _launchEnd: the key is put
\* aside and the function returns nothing
mapOfEnd(toMap, key) == [toMap |-> Append(toMap, key), returned |-> "undefined"]

\* the trace entry for an invocation of the end function that feeds f.feed:
\* what map(f.feed) returned to it ("none" when it did not call map) and
\* whether the key was among the dispatched keys when map(f.feed) returned
LogEnd(w, f) ==
  LET w1 == Log(w, "end", f.feed, f.settle # "none")
  IN [w1 EXCEPT !.trace[Len(w1.trace)] =
        @ @@ [returned |-> IF f.feed = NoKey THEN "none"
                           ELSE mapOfEnd(<<>>, f.feed).returned,
              dispatched |-> /\ f.feed # NoKey
                             /\ \E m \in 1 .. Len(w.ip._mapped) : w.ip._mapped[m] = f.feed]]

\* the relaunch loop of _launchEnd
RECURSIVE Relaunch(_, _, _)
Relaunch(w, toMap, i) ==
  IF w.thrown \/ i > Len(toMap) THEN w
  ELSE LET before == Len(w.obs.mapCalls)
           w1 == Invoke(w, "_launchMap", <<toMap[i]>>)
           w2 == IF Len(w1.obs.mapCalls) > before
                   THEN [w1 EXCEPT !.obs.endFed = @ \cup {toMap[i]}]
                   ELSE w1
       IN Relaunch(w2, toMap, i + 1)

\* _launchEnd resolving the process whatever the end function fed
_launchEndResolving(w) ==
  LET w1 == [w EXCEPT !.ip._endShouldBeLaunched = TRUE]
  IN IF w1.ip.endFn # "function" THEN w1
     ELSE
       LET w2 == LogEnd(w1, w.env.eb)
           toMap == IF w.env.eb.feed = NoKey THEN <<>> ELSE mapOfEnd(<<>>, w.env.eb.feed).toMap
           w3 == Relaunch(SettleBy(w2, w.env.eb.settle), toMap, 1)
       IN IF w3.thrown THEN w3
          ELSE IF ~isCompleted(w3, IP)
            THEN Log(resolve(w3, IP, <<w3.ip._currentReduceResult>>), "endRet", NoKey, TRUE)
            ELSE Log(w3, "endRet", NoKey, FALSE)

\* IterativePromise.prototype._launchEnd; the user's end function may push a
\* key through its map argument and may settle the process
_launchEnd(w) ==
  LET w1 == [w EXCEPT !.ip._endShouldBeLaunched = TRUE]
  IN IF w1.ip.endFn # "function" THEN w1
     ELSE
       LET w2 == LogEnd(w1, w.env.eb)
           toMap == IF w.env.eb.feed = NoKey THEN <<>> ELSE mapOfEnd(<<>>, w.env.eb.feed).toMap
           w3 == SettleBy(w2, w.env.eb.settle)
       IN IF w3.thrown THEN w3
          ELSE IF Len(toMap) # 0
            THEN LET w4 == Relaunch(w3, toMap, 1)
                 IN IF w4.thrown THEN w4 ELSE Log(w4, "endRet", NoKey, FALSE)
          ELSE IF ~isCompleted(w3, IP)
            THEN Log(resolve(w3, IP, <<w3.ip._currentReduceResult>>), "endRet", NoKey, TRUE)
            ELSE Log(w3, "endRet", NoKey, FALSE)

\* a call of a function through the call stack: fn names the function, a holds
\* its arguments
\* IterativePromise.prototype.init
init(w, init_value) == [w EXCEPT !.ip._currentReduceResult = init_value]

\* this.to_map.forEach(function(key) { this._launchMap(key); }, this)
RECURSIVE ForEach(_, _, _)
ForEach(w, array, i) ==
  IF w.thrown \/ i > Len(array) THEN w
  ELSE ForEach(Invoke(w, "_launchMap", <<array[i]>>), array, i + 1)

\* start without the test of _started
startAlways(w, array) ==
  LET w1 == [w EXCEPT !.ip._started = TRUE]
      w2 == IF array # NoArray THEN [w1 EXCEPT !.ip.to_map = array] ELSE w1
      to_map == w2.ip.to_map
  IN IF to_map = NoArray THEN Throw(w2)
     ELSE IF Len(to_map) # 0 THEN ForEach(w2, to_map, 1)
     ELSE Throw(w2)

\* IterativePromise.prototype.start; array = NoArray when called without
\* argument.  var length = to_map.length || to_map.size() raises a TypeError
\* when no array was ever given (to_map is undefined) and when the array is
\* empty (its length is 0 and an array has no size method), so that the
\* branch this._launchEnd() is never reached with an array
start(w, array) ==
  IF w.ip._started THEN w
  ELSE
    LET w1 == [w EXCEPT !.ip._started = TRUE]
        w2 == IF array # NoArray THEN [w1 EXCEPT !.ip.to_map = array] ELSE w1
        to_map == w2.ip.to_map
    IN IF to_map = NoArray THEN Throw(w2)
       ELSE IF Len(to_map) # 0 THEN ForEach(w2, to_map, 1)
       ELSE Throw(w2)

\* IterativePromise.prototype.map
map(w) ==
  LET w1 == [w EXCEPT !.ip.mapFn = "function"]
  IN IF w1.ip.to_map # NoArray THEN start(w1, NoArray) ELSE w1

\* while (this._reduceBuffer.length > 0) { shift; this._launchReduce.apply(this, args) }
RECURSIVE Drain(_)
Drain(w) ==
  IF w.thrown \/ Len(w.ip._reduceBuffer) = 0 THEN w
  ELSE LET args == Head(w.ip._reduceBuffer)
       IN Drain(Invoke([w EXCEPT !.ip._reduceBuffer = Tail(@)],
                       "_launchReduce", <<args.key, args.result>>))

\* IterativePromise.prototype.reduce
reduce(w, initialValue) ==
  LET w1 == [w EXCEPT !.ip.reduceFn = "function", !.obs.init = initialValue]
      w2 == IF Truthy(initialValue) THEN init(w1, initialValue) ELSE w1
  IN Drain(w2)

\* IterativePromise.prototype.end
end(w) ==
  LET w1 == [w EXCEPT !.ip.endFn = "function",
                      !.obs.replaced = @ \/ w.ip.endFn = "function"]
  IN IF w1.ip._endShouldBeLaunched THEN Invoke(w1, "_launchEnd", <<>>) ELSE w1

\* a call of a function through the call stack: fn names the function, a holds
\* its arguments
Invoke(w, fn, a) ==
  CASE fn = "handler" -> RunHandler(w, a[1], a[2], a[3])
    [] fn = "_complete" -> _complete(w, a[1], a[2], a[3])
    [] fn = "emit" -> emit(w, a[1], a[2], a[3])
    [] fn = "_launchMap" -> _launchMap(w, a[1])
    [] fn = "_launchReduce" -> _launchReduce(w, a[1], a[2])
    [] fn = "_launchEnd" -> _launchEnd(w)
    [] fn = "map" -> map(w)
    [] fn = "reduce" -> reduce(w, a[1])
    [] fn = "end" -> end(w)
    [] fn = "start" -> start(w, a[1])
    [] fn = "resolve" -> resolve(w, a[1], a[2])
    [] fn = "reject" -> reject(w, a[1], a[2])

\* ---------------------------------------------------------------- the environment
RECURSIVE SeqsUpTo(_, _)
SeqsUpTo(S, n) ==
  IF n = 0 THEN {<<>>}
  ELSE LET shorter == SeqsUpTo(S, n - 1)
       IN shorter \cup {Append(q, x) : q \in shorter, x \in S}

\* initial key sequences: over the number 0 and the object MaxKey
InitialSeqs == SeqsUpTo({0, MaxKey}, MaxInitLen)

\* what the user's reduce and end functions do when they are invoked during
\* a call: feed nothing or one key, and settle the process or not
Does(feed, settle) == [feed |-> feed, settle |-> settle]
Quiet == Does(NoKey, "none")
ReduceDoes == {Quiet, Does(NoKey, "resolve")} \cup {Does(k, "none") : k \in Keys}
EndDoes == {Quiet, Does(NoKey, "reject"), Does(MaxKey, "resolve")}
             \cup {Does(k, "none") : k \in Keys}

\* initial reduce values: the empty string, a non-empty string
InitialValues == {<<>>, <<"init">>}

\* user functions that do nothing (none is invoked by the call)
Plain == [mk |-> "pending", rb |-> Quiet, eb |-> Quiet]

\* the program state at the start of a call
World(env) ==
  [heap |-> heap, ip |-> ip, trace |-> <<>>, obs |-> obs, thrown |-> FALSE, env |-> env]

\* the calls the environment makes
Call(name, key, arg) == [name |-> name, key |-> key, arg |-> arg]

Run(c, env) ==
  Invoke(World(env), c.name, IF c.name \in {"resolve", "reject"}
                               THEN <<c.key, c.arg>> ELSE <<c.arg>>)

\* the user functions a call has invoked
Invoked(w, name) == \E i \in 1 .. Len(w.trace) : w.trace[i].ev = name

UsedBy(w) ==
  (IF Invoked(w, "mapFn") THEN {"mk"} ELSE {})
    \cup (IF Invoked(w, "reduce") THEN {"rb"} ELSE {})
    \cup (IF Invoked(w, "end") THEN {"eb"} ELSE {})

Choices(x) ==
  CASE x = "mk" -> MapReturns
    [] x = "rb" -> ReduceDoes
    [] x = "eb" -> EndDoes

\* Every outcome of call c over all behaviours of the user functions.  What a
\* user function does is an input only once the call invokes it: starting
\* from behaviours that do nothing, a function's behaviour is varied when
\* the run reaches that function.
RECURSIVE Outcomes(_, _, _)
Vary(c, env, decided, w) ==
  LET open == UsedBy(w) \ decided
  IN IF open = {} THEN {w}
     ELSE LET x == CHOOSE y \in open : TRUE
          IN UNION {Outcomes(c, [env EXCEPT ![x] = v], decided \cup {x}) : v \in Choices(x)}

Outcomes(c, env, decided) == Vary(c, env, decided, Run(c, env))

Results(c) == Outcomes(c, [mk |-> "pending", rb |-> Quiet, eb |-> Quiet], {})

Commit(w) ==
  /\ heap' = w.heap
  /\ ip' = w.ip
  /\ trace' = w.trace
  /\ obs' = w.obs
  /\ thrown' = w.thrown

NoCall == [called |-> FALSE, kind |-> "none", args |-> <<>>, again |-> FALSE]

\* new IterativePromise()
IterInit ==
  /\ heap = [p \in Pids |-> IF p = IP THEN NewPromise ELSE NoPromise]
  /\ ip = [to_map |-> NoArray, _started |-> FALSE, _onFly |-> 0, _mapped |-> <<>>,
           _resolved |-> <<>>, _rejected |-> <<>>, _reduceBuffer |-> <<>>,
           _endShouldBeLaunched |-> FALSE, _currentReduceResult |-> Undefined,
           mapFn |-> "undefined", reduceFn |-> "undefined", endFn |-> "undefined"]
  /\ trace = <<>>
  /\ obs = [mapCalls |-> <<>>, reduceFed |-> {}, endFed |-> {}, owned |-> {},
            init |-> Undefined, replaced |-> FALSE, spies |-> <<>>,
            first |-> [p \in Pids |-> NoCall],
            cancelled |-> [p \in Pids |-> FALSE]]
  /\ thrown = FALSE

\* itPro.map(fn), called once
Map ==
  /\ ip.mapFn = "undefined"
  /\ \E w \in Results(Call("map", NoKey, <<>>)) : Commit(w)

\* itPro.reduce(fn, initialValue), called once
Reduce ==
  /\ ip.reduceFn = "undefined"
  /\ \E iv \in InitialValues : \E w \in Results(Call("reduce", NoKey, iv)) : Commit(w)

\* itPro.end(fn), to attach the end function or to replace it once
End ==
  /\ ip.endFn = "undefined" \/ ~obs.replaced
  /\ \E w \in Results(Call("end", NoKey, <<>>)) : Commit(w)

\* itPro.start(array), called once, before or after map, reduce and end
StartAnytime ==
  /\ ~ip._started
  /\ \E array \in InitialSeqs :
    \E w \in Results(Call("start", NoKey, array)) : Commit(w)

\* itPro.start(array), called once, after map, reduce and end
Start ==
  /\ {ip.mapFn, ip.reduceFn, ip.endFn} = {"function"}
  /\ StartAnytime

\* the promises returned by the mapping function that are still pending
Pending == {k \in obs.owned : heap[k].state = "progress"}

\* the environment resolves a promise its mapping function returned
SettleResolve ==
  \E k \in Pending :
    \E w \in Results(Call("resolve", k, ResolveArgs(k))) : Commit(w)

\* the environment rejects a promise its mapping function returned
SettleReject ==
  \E k \in Pending :
    \E w \in Results(Call("reject", k, RejectArgs(k))) : Commit(w)

\* the environment settles the process from outside: itPro.resolve / itPro.reject
Stop ==
  \E how \in {"resolve", "reject"} :
    \E w \in Results(Call(how, IP, <<Manual>>)) : Commit(w)

\* itPro.cancel(), on a process that is not settled and has mapped promises
\* outstanding
CancelProcess ==
  /\ heap[IP].state = "progress"
  /\ ~heap[IP].events.resolved.disabled
  /\ Pending # {}
  /\ Commit(cancel(World(Plain), IP))

IterNext ==
  \/ Map
  \/ Reduce
  \/ End
  \/ Start
  \/ SettleResolve
  \/ SettleReject
  \/ Stop
  \/ CancelProcess

IterSpec == IterInit /\ [][IterNext]_vars

\* AttachSpec: the functions are attached and the process is started in any
\* order; the key sequence may be given to the constructor
ConstructorSeqs == {NoArray} \cup SeqsUpTo({0}, 1)

\* new IterativePromise(to_map)
AttachInit ==
  /\ heap = [p \in Pids |-> IF p = IP THEN NewPromise ELSE NoPromise]
  /\ \E to_map \in ConstructorSeqs :
       ip = [to_map |-> to_map, _started |-> FALSE, _onFly |-> 0, _mapped |-> <<>>,
             _resolved |-> <<>>, _rejected |-> <<>>, _reduceBuffer |-> <<>>,
             _endShouldBeLaunched |-> FALSE, _currentReduceResult |-> Undefined,
             mapFn |-> "undefined", reduceFn |-> "undefined", endFn |-> "undefined"]
  /\ trace = <<>>
  /\ obs = [mapCalls |-> <<>>, reduceFed |-> {}, endFed |-> {}, owned |-> {},
            init |-> Undefined, replaced |-> FALSE, spies |-> <<>>,
            first |-> [p \in Pids |-> NoCall],
            cancelled |-> [p \in Pids |-> FALSE]]
  /\ thrown = FALSE

AttachNext ==
  \/ Map
  \/ Reduce
  \/ End
  \/ StartAnytime
  \/ SettleResolve
  \/ SettleReject

AttachSpec == AttachInit /\ [][AttachNext]_vars

\* RestartSpec: as AttachSpec, and start(array) and map(fn) are called again
\* at any moment once the process is started
\* the trace entry for a call of start or map on a started process
Again(name, args) ==
  [World(Plain) EXCEPT !.trace = <<[ev |-> name, args |-> args]>>]

\* itPro.start(array) on a started process
StartAgain ==
  /\ ip._started
  /\ \E array \in InitialSeqs \cup {NoArray} :
       Commit(start(Again("start", array), array))

\* itPro.map(fn) on a started process
MapAgain ==
  /\ ip._started
  /\ Commit(map(Again("map", <<>>)))

RestartNext ==
  \/ Map
  \/ Reduce
  \/ End
  \/ StartAnytime
  \/ SettleResolve
  \/ SettleReject
  \/ StartAgain
  \/ MapAgain

RestartSpec == AttachInit /\ [][RestartNext]_vars

\* ---------------------------------------------------------------- plain promises
\* PromiseSpec: three plain promises.  Src and Ret are constructed at the
\* start; Piped is the promise Src.pipe(callback, errback) returns, where a
\* user function that returns a promise returns Ret.  The IterativePromise
\* fields are not used.
Src == 0
Ret == 1
Piped == 2
Plains == {Src, Ret, Piped}
PipeFns == {"none", "undefined", "value", "error", "promise"}

Live == {p \in Plains : heap[p].state # "none"}

\* the argument of the first resolve/reject call on a promise, and of later calls
ArgFor(p) == IF obs.first[p].called THEN "b" ELSE "a"

\* a new observer of kind "resolved" (addCallback) or "rejected" (addErrback);
\* early: registered before any resolve/reject call on p and before any cancel;
\* late: registered when p is already in the state of that kind; ctx: the
\* context it is registered with
Watch(w, p, kind, context) ==
  [w EXCEPT !.obs.spies = Append(@, [pid |-> p, kind |-> kind, calls |-> <<>>,
                                      early |-> ~w.obs.first[p].called /\ ~w.obs.cancelled[p],
                                      late |-> w.heap[p].state = kind,
                                      ctx |-> context])]

\* Src = new Promise(); Ret = new Promise()
PromiseInit ==
  /\ heap = [p \in Pids |-> IF p \in {Src, Ret} THEN NewPromise ELSE NoPromise]
  /\ ip = [to_map |-> NoArray, _started |-> FALSE, _onFly |-> 0, _mapped |-> <<>>,
           _resolved |-> <<>>, _rejected |-> <<>>, _reduceBuffer |-> <<>>,
           _endShouldBeLaunched |-> FALSE, _currentReduceResult |-> Undefined,
           mapFn |-> "undefined", reduceFn |-> "undefined", endFn |-> "undefined"]
  /\ trace = <<>>
  /\ obs = [mapCalls |-> <<>>, reduceFed |-> {}, endFed |-> {}, owned |-> {},
            init |-> Undefined, replaced |-> FALSE, spies |-> <<>>,
            first |-> [p \in Pids |-> NoCall],
            cancelled |-> [p \in Pids |-> FALSE]]
  /\ thrown = FALSE

\* p.resolve(v)
Resolve ==
  \E p \in Live : Commit(resolve(World(Plain), p, <<ArgFor(p)>>))

\* p.reject(v)
Reject ==
  \E p \in Live : Commit(reject(World(Plain), p, <<ArgFor(p)>>))

\* p.cancel()
Cancel ==
  \E p \in Live : Commit(cancel(World(Plain), p))

\* p.addCallback(observer)
AddCallback ==
  /\ Len(obs.spies) < MaxSpies
  /\ \E p \in Live :
       Commit(addCallback(Watch(World(Plain), p, "resolved", NoContext), p,
                          Spy(Len(obs.spies) + 1), NoContext))

\* p.addErrback(observer)
AddErrback ==
  /\ Len(obs.spies) < MaxSpies
  /\ \E p \in Live :
       Commit(addErrback(Watch(World(Plain), p, "rejected", NoContext), p,
                         Spy(Len(obs.spies) + 1), NoContext))

\* Piped = Src.pipe(callback, errback)
Pipe ==
  /\ Piped \notin Live
  /\ \E cb \in PipeFns, eb \in PipeFns :
       Commit(pipe(World(Plain), Src, Piped, cb, eb, Ret))

PromiseNext ==
  \/ Resolve
  \/ Reject
  \/ Cancel
  \/ AddCallback
  \/ AddErrback
  \/ Pipe

PromiseSpec == PromiseInit /\ [][PromiseNext]_vars

\* ---------------------------------------------------------------- handlers
\* HandlerSpec: observers are registered on the promise Src with or without
\* a context, before and after it is resolved, rejected or cancelled.
MaxHandlers == 3
Contexts == {NoContext, That}

\* Src.addCallback(observer, context)
ObserveResolved ==
  /\ Len(obs.spies) < MaxHandlers
  /\ \E context \in Contexts :
       Commit(addCallback(Watch(World(Plain), Src, "resolved", context), Src,
                          Spy(Len(obs.spies) + 1), context))

\* Src.addErrback(observer, context)
ObserveRejected ==
  /\ Len(obs.spies) < MaxHandlers
  /\ \E context \in Contexts :
       Commit(addErrback(Watch(World(Plain), Src, "rejected", context), Src,
                         Spy(Len(obs.spies) + 1), context))

\* Src.then(success, failure, that) and Src.then(success, failure), whose
\* context is Src itself
ObserveBoth ==
  /\ Len(obs.spies) + 2 <= MaxHandlers
  /\ \E context \in {Src, That} :
       Commit(then(Watch(Watch(World(Plain), Src, "resolved", context),
                         Src, "rejected", context),
                   Src, Spy(Len(obs.spies) + 1), Spy(Len(obs.spies) + 2), context))

\* Src.resolve(v)
ResolveSrc == Commit(resolve(World(Plain), Src, <<ArgFor(Src)>>))

\* Src.reject(v)
RejectSrc == Commit(reject(World(Plain), Src, <<ArgFor(Src)>>))

\* Src.cancel()
CancelSrc == Commit(cancel(World(Plain), Src))

HandlerNext ==
  \/ ObserveResolved
  \/ ObserveRejected
  \/ ObserveBoth
  \/ ResolveSrc
  \/ RejectSrc
  \/ CancelSrc

HandlerSpec == PromiseInit /\ [][HandlerNext]_vars

\* ---------------------------------------------------------------- pipe chains
\* PipeSpec: Piped = Src.pipe(callback, errback), where a user function that
\* returns a promise returns Ret, and Piped2 = Piped.pipe(callback, errback),
\* where it returns Ret2.  The environment resolves and rejects Src, Ret and
\* Ret2; the promises pipe returned are settled by pipe alone.
Piped2 == IP
Ret2 == IP + 2
PipePids == Pids \cup {Ret2}
Givens == {Src, Ret, Ret2}

\* remember a pipe call: source, returned promise, the two functions and the
\* promise they return when they return one (instrumentation)
NotePipe(w, p, q, cb, eb, r) ==
  [w EXCEPT !.obs.pipes = Append(@, [src |-> p, ret |-> q, callback |-> cb,
                                      errback |-> eb, aux |-> r])]

\* Src = new Promise(); Ret = new Promise(); Ret2 = new Promise()
PipeInit ==
  /\ heap = [p \in PipePids |-> IF p \in Givens THEN NewPromise ELSE NoPromise]
  /\ ip = [to_map |-> NoArray, _started |-> FALSE, _onFly |-> 0, _mapped |-> <<>>,
           _resolved |-> <<>>, _rejected |-> <<>>, _reduceBuffer |-> <<>>,
           _endShouldBeLaunched |-> FALSE, _currentReduceResult |-> Undefined,
           mapFn |-> "undefined", reduceFn |-> "undefined", endFn |-> "undefined"]
  /\ trace = <<>>
  /\ obs = [mapCalls |-> <<>>, reduceFed |-> {}, endFed |-> {}, owned |-> {},
            init |-> Undefined, replaced |-> FALSE, spies |-> <<>>,
            first |-> [p \in PipePids |-> NoCall],
            cancelled |-> [p \in PipePids |-> FALSE],
            pipes |-> <<>>]
  /\ thrown = FALSE

\* Piped = Src.pipe(callback, errback)
PipeFirst ==
  /\ heap[Piped].state = "none"
  /\ \E cb \in PipeFns, eb \in PipeFns :
       Commit(pipe(NotePipe(World(Plain), Src, Piped, cb, eb, Ret), Src, Piped, cb, eb, Ret))

\* Piped2 = Piped.pipe(callback, errback)
PipeSecond ==
  /\ heap[Piped].state # "none"
  /\ heap[Piped2].state = "none"
  /\ \E cb \in PipeFns, eb \in PipeFns :
       Commit(pipe(NotePipe(World(Plain), Piped, Piped2, cb, eb, Ret2),
                   Piped, Piped2, cb, eb, Ret2))

\* p.resolve(v) on a promise the environment constructed
ResolveGiven ==
  \E p \in Givens :
    Commit(resolve(World(Plain), p, IF obs.first[p].called THEN <<"b">> ELSE ResolveArgs(p)))

\* p.reject(v) on a promise the environment constructed
RejectGiven ==
  \E p \in Givens :
    Commit(reject(World(Plain), p, IF obs.first[p].called THEN <<"b">> ELSE ResolveArgs(p)))

PipeNext ==
  \/ PipeFirst
  \/ PipeSecond
  \/ ResolveGiven
  \/ RejectGiven

PipeSpec == PipeInit /\ [][PipeNext]_vars

\* ---------------------------------------------------------------- event emitter
\* EmitterSpec: one EventEmitter, ee, built from lib/eventemitter.js or from
\* unnamed/part_001.  The environment registers listeners on 'foo' and on
\* 'error' with any options, removes them by handler and emits both events.
\* Two handlers return normally and one throws; the handler registered on
\* 'error' returns normally.
MaxListeners == 3
EE == 0
Types == {"foo", "error"}
Builds == {Lib, Part1}
EmitArgs == {<<"arg1">>, <<"arg1", "arg2">>}

NewEmitter(build) ==
  [state |-> Null, deactivated |-> FALSE, events |-> [t \in {} |-> NewEvent],
   build |-> build]

Listen(n) == Handler("listener", n)
Thrower(n) == Handler("thrower", n)
HandlersOn(type) ==
  IF type = "error" THEN {Listen(4)} ELSE {Listen(1), Listen(2), Thrower(3)}

\* the options a handler is registered with; errorCb only matters for a
\* handler that throws
OptionsFor(h) ==
  {Options(o, u, e) : o \in BOOLEAN, u \in BOOLEAN,
                      e \in IF h.type = "thrower" THEN BOOLEAN ELSE {FALSE}}

\* the listeners of a type on ee (none when ee has no such event)
ListenersOf(h, type) ==
  IF type \in DOMAIN h[EE].events THEN h[EE].events[type].listeners ELSE <<>>

\* the first trace entry of a call the environment makes on ee
Called(w, name, type, id, args) ==
  [w EXCEPT !.trace = Append(@, [ev |-> name, key |-> id, flag |-> FALSE,
                                 type |-> type, args |-> args])]

\* ee = new EventEmitter()
EmitterInit ==
  /\ \E build \in Builds :
       heap = [p \in Pids |-> IF p = EE THEN NewEmitter(build) ELSE NoPromise]
  /\ ip = [to_map |-> NoArray, _started |-> FALSE, _onFly |-> 0, _mapped |-> <<>>,
           _resolved |-> <<>>, _rejected |-> <<>>, _reduceBuffer |-> <<>>,
           _endShouldBeLaunched |-> FALSE, _currentReduceResult |-> Undefined,
           mapFn |-> "undefined", reduceFn |-> "undefined", endFn |-> "undefined"]
  /\ trace = <<>>
  /\ obs = [mapCalls |-> <<>>, reduceFed |-> {}, endFed |-> {}, owned |-> {},
            init |-> Undefined, replaced |-> FALSE, spies |-> <<>>,
            first |-> [p \in Pids |-> NoCall],
            cancelled |-> [p \in Pids |-> FALSE]]
  /\ thrown = FALSE

\* ee.on(type, handler, undefined, options)
On ==
  /\ Len(ListenersOf(heap, "foo")) + Len(ListenersOf(heap, "error")) < MaxListeners
  /\ \E type \in Types :
       \E h \in HandlersOn(type) :
         \E options \in OptionsFor(h) :
           Commit(on(Called(World(Plain), "on", type, h.id, <<>>),
                     EE, type, h, NoContext, options))

\* ee.emit(type, args)
Emit ==
  \E type \in Types, args \in EmitArgs :
    Commit(emit(Called(World(Plain), "emit", type, 0, args), EE, type, args))

\* ee.off(type, handler)
Off ==
  \E type \in Types :
    \E h \in HandlersOn(type) :
      Commit(off(Called(World(Plain), "off", type, h.id, <<>>), EE, type, h, NoContext))

EmitterNext ==
  \/ On
  \/ Emit
  \/ Off

EmitterSpec == EmitterInit /\ [][EmitterNext]_vars

\* ---------------------------------------------------------------- state event emitter
\* StateSpec: one StateEventEmitter, see (at the address EE).  The
\* environment registers listeners that read this.state on the events named
\* after the states and on 'state_change', sets the state with and without
\* events and reads it.  The states are two words and the empty string.
States == {"foo", "bar", ""}
StateArgs == {<<>>, <<"argeu">>}
Reader(n) == Handler("reader", n)
Readers == {Reader(1), Reader(2)}

\* the listeners see has on all its events
Registered(h) ==
  LET count[T \in SUBSET DOMAIN h[EE].events] ==
        IF T = {} THEN 0
        ELSE LET t == CHOOSE x \in T : TRUE
             IN Len(h[EE].events[t].listeners) + count[T \ {t}]
  IN count[DOMAIN h[EE].events]

\* see = new StateEventEmitter()
StateInit ==
  /\ heap = [p \in Pids |-> IF p = EE THEN NewEmitter(Lib) ELSE NoPromise]
  /\ ip = [to_map |-> NoArray, _started |-> FALSE, _onFly |-> 0, _mapped |-> <<>>,
           _resolved |-> <<>>, _rejected |-> <<>>, _reduceBuffer |-> <<>>,
           _endShouldBeLaunched |-> FALSE, _currentReduceResult |-> Undefined,
           mapFn |-> "undefined", reduceFn |-> "undefined", endFn |-> "undefined"]
  /\ trace = <<>>
  /\ obs = [mapCalls |-> <<>>, reduceFed |-> {}, endFed |-> {}, owned |-> {},
            init |-> Undefined, replaced |-> FALSE, spies |-> <<>>,
            first |-> [p \in Pids |-> NoCall],
            cancelled |-> [p \in Pids |-> FALSE]]
  /\ thrown = FALSE

\* see.on(state, handler)
OnState ==
  /\ Registered(heap) < MaxListeners
  /\ \E type \in States, h \in Readers :
       Commit(on(Called(World(Plain), "on", type, h.id, <<>>),
                 EE, type, h, NoContext, NoOptions))

\* see.onStateChange(handler)
OnStateChange ==
  /\ Registered(heap) < MaxListeners
  /\ \E h \in Readers :
       Commit(on(seeLazyInit(Called(World(Plain), "onStateChange", "state_change", h.id, <<>>),
                             EE),
                 EE, "state_change", h, NoContext, NoOptions))

\* see.setState(state, args)
SetState ==
  \E state \in States, args \in StateArgs :
    Commit(setState(Called(World(Plain), "setState", state, 0, args), EE, state, args))

\* see.setStateSilently(state)
SetStateSilently ==
  \E state \in States :
    Commit(setStateSilently(seeLazyInit(Called(World(Plain), "setStateSilently", state, 0, <<>>),
                                        EE),
                            EE, state))

\* see.getState()
GetState ==
  Commit(seeLazyInit(Called(World(Plain), "getState", "", 0, <<>>), EE))

StateNext ==
  \/ OnState
  \/ OnStateChange
  \/ SetState
  \/ SetStateSilently
  \/ GetState

StateSpec == StateInit /\ [][StateNext]_vars

\* ---------------------------------------------------------------- combinators (environment)
\* WhenSpec: the promises at the addresses 0 .. MaxKey are the inputs.  The
\* environment resolves and rejects them at any time, any number of times,
\* and calls whenSome, whenAll or whenMap once, at any moment, with an array
\* of distinct inputs.
MaxInputs == 3
Arrays ==
  {q \in SeqsUpTo(Keys, MaxInputs) :
     q # <<>> /\ \A i, j \in 1 .. Len(q) : i # j => q[i] # q[j]}

NoScope ==
  [promises |-> <<>>, resolved |-> <<>>, rejected |-> <<>>, toResolve |-> 0,
   notToReject |-> 0, results |-> <<>>, total |-> 0]

\* remember the call of the combinator and how many inputs had settled before
\* it (instrumentation)
NoteWhen(w, name, promises, n) ==
  [w EXCEPT !.obs.call = [name |-> name, promises |-> promises, n |-> n,
                          before |-> Len(w.obs.settled)]]

\* remember the order in which the inputs settle (instrumentation)
NoteSettle(w, k, kind) ==
  IF w.heap[k].state = "progress"
    THEN [w EXCEPT !.obs.settled = Append(@, [key |-> k, kind |-> kind])]
    ELSE w

WhenInit ==
  /\ heap = [p \in Pids \cup {Scope} |->
               IF p \in Keys THEN NewPromise
               ELSE IF p = Scope THEN NoScope ELSE NoPromise]
  /\ ip = [to_map |-> NoArray, _started |-> FALSE, _onFly |-> 0, _mapped |-> <<>>,
           _resolved |-> <<>>, _rejected |-> <<>>, _reduceBuffer |-> <<>>,
           _endShouldBeLaunched |-> FALSE, _currentReduceResult |-> Undefined,
           mapFn |-> "undefined", reduceFn |-> "undefined", endFn |-> "undefined"]
  /\ trace = <<>>
  /\ obs = [mapCalls |-> <<>>, reduceFed |-> {}, endFed |-> {}, owned |-> {},
            init |-> Undefined, replaced |-> FALSE, spies |-> <<>>,
            first |-> [p \in Pids |-> NoCall],
            cancelled |-> [p \in Pids |-> FALSE],
            settled |-> <<>>,
            call |-> [name |-> "none", promises |-> <<>>, n |-> 0, before |-> 0]]
  /\ thrown = FALSE

\* promises[k].resolve(value)
ResolveInput ==
  \E k \in Keys :
    Commit(resolve(NoteSettle(Called(World(Plain), "resolve", "input", k, ResolveArgs(k)),
                              k, "resolved"),
                   k, ResolveArgs(k)))

\* promises[k].reject(error)
RejectInput ==
  \E k \in Keys :
    Commit(reject(NoteSettle(Called(World(Plain), "reject", "input", k, RejectArgs(k)),
                             k, "rejected"),
                  k, RejectArgs(k)))

\* Promise.whenSome(promises, n)
WhenSome ==
  /\ obs.call.name = "none"
  /\ \E promises \in Arrays :
       \E n \in 0 .. (Len(promises) + 1) :
         Commit(whenSome(NoteWhen(Called(World(Plain), "whenSome", "call", n, <<>>),
                                  "whenSome", promises, n),
                         promises, n))

\* Promise.whenAll(promises)
WhenAll ==
  /\ obs.call.name = "none"
  /\ \E promises \in Arrays :
       Commit(whenAll(NoteWhen(Called(World(Plain), "whenAll", "call", 0, <<>>),
                               "whenAll", promises, Len(promises)),
                      promises))

\* Promise.whenMap(promises, map)
WhenMap ==
  /\ obs.call.name = "none"
  /\ \E promises \in Arrays :
       Commit(whenMap(NoteWhen(Called(World(Plain), "whenMap", "call", 0, <<>>),
                               "whenMap", promises, 0),
                      promises))

WhenNext ==
  \/ ResolveInput
  \/ RejectInput
  \/ WhenSome
  \/ WhenAll
  \/ WhenMap

WhenSpec == WhenInit /\ [][WhenNext]_vars

\* ---------------------------------------------------------------- properties
Events == 1 .. Len(trace)

\* the finish predicate of _checkFinish at a trace entry
Finish(e) == e.onFly = 0 /\ e.buf = 0 /\ ~e.completed

\* prev + r folded over the results of the keys, in order
RECURSIVE LeftFold(_, _)
LeftFold(acc, keys) ==
  IF keys = <<>> THEN acc ELSE LeftFold(acc \o ResolveArgs(Head(keys)), Tail(keys))

Range(q) == {q[i] : i \in 1 .. Len(q)}

\* C1: every observer registered on a promise before the first resolve or
\* reject call on it (the promise not being cancelled before that call) has
\* been invoked exactly once, with the arguments of the first call, once that
\* call is made and is of the observer's kind; an observer of the other kind,
\* and any observer before the first call, has never been invoked.  Later
\* resolve or reject calls change none of this.
C1_SingleSettlement ==
  \A n \in 1 .. Len(obs.spies) :
    LET spy == obs.spies[n]
        first == obs.first[spy.pid]
    IN (spy.early /\ ~obs.cancelled[spy.pid]) =>
         spy.calls = IF first.called /\ first.kind = spy.kind
                       THEN <<first.args>> ELSE <<>>

\* an observer registered early on a promise that was then the target of two
\* calls, the first of the observer's kind: it was invoked once
C1_Witness ==
  \E n \in 1 .. Len(obs.spies) :
    LET spy == obs.spies[n]
        first == obs.first[spy.pid]
    IN /\ spy.early /\ ~obs.cancelled[spy.pid]
       /\ first.called /\ first.again /\ first.kind = spy.kind
       /\ spy.calls = <<first.args>>

\* C2: once a promise is resolved or rejected, no later operation changes its
\* state or the arguments captured at its settlement.
C2_SettledIsFinal ==
  [][\A p \in Plains :
       heap[p].state \in {"resolved", "rejected"} =>
         /\ heap'[p].state = heap[p].state
         /\ heap'[p].events.resolved.firedArgs = heap[p].events.resolved.firedArgs
         /\ heap'[p].events.rejected.firedArgs = heap[p].events.rejected.firedArgs]_vars

\* C3: the mapping function is never invoked for a key that equals, under
\* equalTestFn, a key it was invoked for before; a _launchMap call for an
\* already dispatched key returns false at once, with no mapping and no
\* reduce invocation in between; and every reduce invocation that returns
\* leaves the accumulator at its previous value combined with its own result.
C3_Dedup ==
  /\ \A i, j \in 1 .. Len(obs.mapCalls) :
       i < j => ~equalTestFn(obs.mapCalls[j], obs.mapCalls[i])
  /\ \A i \in Events :
       (/\ trace[i].ev = "launchMap"
        /\ \E m \in 1 .. Len(trace[i].mapped) : equalTestFn(trace[i].key, trace[i].mapped[m]))
         => /\ i < Len(trace)
            /\ trace[i + 1].ev = "launchMapRet"
            /\ trace[i + 1].key = trace[i].key
            /\ trace[i + 1].flag = FALSE
  /\ \A i \in Events :
       (trace[i].ev = "reduce" /\ ~thrown) =>
         \E j \in Events :
           /\ j > i
           /\ trace[j].ev = "reduceRet"
           /\ trace[j].key = trace[i].key
           /\ trace[j].acc = trace[i].acc \o ResolveArgs(trace[i].key)

\* a reduce invocation fed an already dispatched key, got false, and updated
\* the accumulator
C3_Witness ==
  \E i \in Events :
    /\ i + 3 <= Len(trace)
    /\ trace[i].ev = "reduce"
    /\ trace[i + 1].ev = "launchMap"
    /\ trace[i + 2].ev = "launchMapRet" /\ trace[i + 2].flag = FALSE
    /\ trace[i + 3].ev = "reduceRet"
    /\ trace[i + 3].acc = trace[i].acc \o ResolveArgs(trace[i].key)

\* C4: a process started with the map, reduce and end functions attached is
\* settled once none of its mapped promises is pending any more (nothing else
\* can then happen to settle it).
C4_SettlesWhenQuiet ==
  (ip._started /\ Pending = {}) => heap[IP].state \in {"resolved", "rejected"}

\* C5: every invocation of the end function happens with no outstanding
\* mapped promise, an empty reduce buffer and the process not yet settled.
C5_EndOnlyWhenFinished ==
  \A i \in Events : trace[i].ev = "end" => Finish(trace[i])

\* C6: when a start or a settlement has been processed and leaves the process
\* started, with an end function, no outstanding mapped promise, an empty
\* reduce buffer and unsettled, the end function was invoked during it.
C6_EndWhenFinished ==
  [][(/\ ip.mapFn = "function"
      /\ \/ ~ip._started /\ ip'._started
         \/ \E k \in Keys : heap[k].state = "progress" /\ heap'[k].state # "progress"
      /\ ~thrown'
      /\ ip'._started
      /\ ip'.endFn = "function"
      /\ ip'._onFly = 0
      /\ Len(ip'._reduceBuffer) = 0
      /\ heap'[IP].state = "progress")
       => \E i \in 1 .. Len(trace') : trace'[i].ev = "end"]_vars

\* C7: an end invocation reached with every dispatched key resolved and none
\* rejected receives the initial value given to reduce combined with the
\* results in settlement order, and when the process is then resolved
\* automatically it is resolved with that value.
C7_FoldInSettlementOrder ==
  \A i \in Events :
    (/\ trace[i].ev = "end"
     /\ trace[i].rejected = <<>>
     /\ Range(trace[i].mapped) = Range(trace[i].resolved))
      => /\ trace[i].acc = LeftFold(obs.init, trace[i].resolved)
         /\ (i < Len(trace) /\ trace[i + 1].ev = "endRet" /\ trace[i + 1].flag)
              => heap[IP].events.resolved.firedArgs = <<LeftFold(obs.init, trace[i].resolved)>>

\* C8: when the errback of a mapped promise runs while the process is
\* unsettled, the key is appended to _rejected, the accumulator and _resolved
\* stay as they are, reduce is not invoked for the key, no key is both
\* resolved and rejected, and the finish predicate is evaluated: if it holds
\* and an end function is attached, end is invoked next, with these values.
C8_RejectFrame ==
  /\ Range(ip._resolved) \cap Range(ip._rejected) = {}
  /\ \A i \in Events :
       (trace[i].ev = "errback" /\ ~trace[i].completed) =>
         /\ i < Len(trace)
         /\ trace[i + 1].ev = "errbackCheck"
         /\ trace[i + 1].key = trace[i].key
         /\ trace[i + 1].rejected = Append(trace[i].rejected, trace[i].key)
         /\ trace[i + 1].acc = trace[i].acc
         /\ trace[i + 1].resolved = trace[i].resolved
         /\ \A j \in Events : trace[j].ev = "reduce" => trace[j].key # trace[i].key
         /\ (Finish(trace[i + 1]) /\ ip.endFn = "function") =>
              /\ i + 1 < Len(trace)
              /\ trace[i + 2].ev = "end"
              /\ trace[i + 2].acc = trace[i].acc
              /\ trace[i + 2].resolved = trace[i].resolved
              /\ trace[i + 2].rejected = Append(trace[i].rejected, trace[i].key)

\* a key was resolved and reduced, then the last outstanding promise is
\* rejected and end is invoked
C8_Witness ==
  \E i \in Events :
    /\ i + 2 <= Len(trace)
    /\ trace[i].ev = "errback" /\ ~trace[i].completed
    /\ trace[i + 2].ev = "end"
    /\ trace[i + 2].resolved # <<>>
    /\ trace[i + 2].acc = LeftFold(<<"init">>, trace[i + 2].resolved)

\* C9: the end function is not invoked while the promise of a key fed
\* forward from reduce is still pending.
C9_FeedDefersEnd ==
  \A i \in Events :
    trace[i].ev = "end" => trace[i].pending \cap obs.reduceFed = {}

\* C10: an end invocation that dispatches a new key whose promise is pending
\* returns without the process being resolved; and when the promise of a key
\* fed by end has resolved and its result is reduced, with nothing else
\* outstanding and the process unsettled, end is invoked again.
C10_EndRelaunch ==
  /\ \A i \in Events :
       (/\ i + 3 <= Len(trace)
        /\ trace[i].ev = "end"
        /\ trace[i + 1].ev = "launchMap"
        /\ trace[i + 2].ev = "mapFn"
        /\ trace[i + 3].ev = "launchMapRet"
        /\ trace[i + 2].key \in trace[i + 3].pending)
         => /\ i + 4 <= Len(trace)
            /\ trace[i + 4].ev = "endRet"
            /\ ~trace[i + 4].flag
            /\ trace[i + 4].completed = trace[i + 1].completed
  /\ \A i \in Events :
       (/\ trace[i].ev = "reduceRet"
        /\ trace[i].key \in obs.endFed
        /\ Finish(trace[i])
        /\ ip.endFn = "function")
         => /\ i < Len(trace)
            /\ trace[i + 1].ev = "end"

\* the promise of a key fed by end resolves as the last outstanding one and
\* end is invoked again
C10_Witness ==
  \E i \in Events :
    /\ i < Len(trace)
    /\ trace[i].ev = "reduceRet"
    /\ trace[i].key \in obs.endFed
    /\ trace[i + 1].ev = "end"
    /\ heap[trace[i].key].state = "resolved"

\* C11: when an invocation of the end function has returned, either a mapped
\* promise is outstanding or the process is settled, whatever the end
\* function fed: an end function that dispatched no new key and did not settle
\* the process leaves it resolved.
C11_EndSettlesOrWaits ==
  \A i \in Events :
    trace[i].ev = "endRet" => (trace[i].onFly > 0 \/ trace[i].completed)

\* C12: when the process is started, has no outstanding mapped promise, an
\* empty reduce buffer, is unsettled and has no end function (every dispatched
\* key having been mapped), the call end(fn) invokes fn first, with the
\* accumulator and the resolved and rejected keys of that moment; and when fn
\* feeds no key and does not settle the process, the process is resolved with
\* that accumulator when end(fn) returns.
C12_LateEnd ==
  [][(/\ ip._started
      /\ ip.mapFn = "function"
      /\ Len(obs.mapCalls) = Len(ip._mapped)
      /\ ip._onFly = 0
      /\ Len(ip._reduceBuffer) = 0
      /\ heap[IP].state = "progress"
      /\ ip.endFn = "undefined"
      /\ ip'.endFn = "function")
       => /\ Len(trace') >= 1
          /\ trace'[1].ev = "end"
          /\ trace'[1].acc = ip._currentReduceResult
          /\ trace'[1].resolved = ip._resolved
          /\ trace'[1].rejected = ip._rejected
          /\ (trace'[1].key = NoKey /\ ~trace'[1].flag) =>
               /\ heap'[IP].state = "resolved"
               /\ heap'[IP].events.resolved.firedArgs = <<ip._currentReduceResult>>]_vars

\* the keys of the entries of q named ev, in order
RECURSIVE KeysOf(_, _, _)
KeysOf(q, ev, among) ==
  IF q = <<>> THEN <<>>
  ELSE IF Head(q).ev = ev /\ Head(q).key \in among
    THEN <<Head(q).key>> \o KeysOf(Tail(q), ev, among)
    ELSE KeysOf(Tail(q), ev, among)

BufferedKeys(buffer) == [i \in 1 .. Len(buffer) |-> buffer[i].key]

\* C13: while no reduce function is attached the reduce buffer holds the
\* resolved keys with their arguments in the order they were resolved; the end
\* function is never invoked while the buffer is not empty; and the call
\* reduce(fn, init) passes the buffered pairs to fn in that order and leaves
\* the buffer empty.
C13_BufferedReduce ==
  [][/\ ip'.reduceFn = "undefined" =>
          /\ BufferedKeys(ip'._reduceBuffer) = ip'._resolved
          /\ \A i \in 1 .. Len(ip'._reduceBuffer) :
               ip'._reduceBuffer[i].result = ResolveArgs(ip'._reduceBuffer[i].key)
     /\ \A i \in 1 .. Len(trace') : trace'[i].ev = "end" => trace'[i].buf = 0
     /\ (ip.reduceFn = "undefined" /\ ip'.reduceFn = "function" /\ ~thrown') =>
          /\ KeysOf(trace', "reduce", Range(BufferedKeys(ip._reduceBuffer)))
               = BufferedKeys(ip._reduceBuffer)
          /\ ip'._reduceBuffer = <<>>]_vars

\* C14: in whatever order map, reduce, end and start are called, between
\* settlements of the mapped promises, no call raises an error, the mapping
\* function is invoked once for every dispatched key, and an end invocation
\* made with the three functions attached, every dispatched key resolved and
\* nothing outstanding receives the initial value combined with the results
\* in settlement order, as it does when the functions are attached before
\* start.
C14_AnyOrder ==
  /\ ~thrown
  /\ obs.mapCalls = ip._mapped
  /\ \A i \in Events :
       (/\ trace[i].ev = "end"
        /\ {ip.mapFn, ip.reduceFn, ip.endFn} = {"function"}
        /\ trace[i].rejected = <<>>
        /\ trace[i].pending = {}
        /\ Range(trace[i].mapped) = Range(trace[i].resolved))
         => trace[i].acc = LeftFold(obs.init, trace[i].resolved)

\* C15: when the process is started with an empty key sequence, given to the
\* constructor or to start, the mapping function is not invoked before the end
\* phase: without an end function nothing is invoked; with one, it is invoked
\* first, with the initial value given to reduce and no resolved and no
\* rejected key, and when it feeds no key and does not settle the process, the
\* process is resolved with that initial value.
C15_EmptyStart ==
  [][(~ip._started /\ ip'._started /\ ip'.to_map = <<>>) =>
       /\ ip.endFn = "undefined" => (trace' = <<>> /\ heap'[IP].state = "progress")
       /\ ip.endFn = "function" =>
            /\ Len(trace') >= 1
            /\ trace'[1].ev = "end"
            /\ trace'[1].acc = obs.init
            /\ trace'[1].resolved = <<>>
            /\ trace'[1].rejected = <<>>
            /\ (trace'[1].key = NoKey /\ ~trace'[1].flag) =>
                 /\ heap'[IP].state = "resolved"
                 /\ heap'[IP].events.resolved.firedArgs = <<obs.init>>]_vars

\* C16: when a mapped promise settles while the process is settled, the
\* resolved and rejected keys, the accumulator and the reduce buffer stay as
\* they are, and neither the reduce function nor the end function is invoked.
C16_SettledAbsorbs ==
  [][\A k \in Keys :
       (/\ heap[IP].state \in {"resolved", "rejected"}
        /\ k \in obs.owned
        /\ heap[k].state = "progress"
        /\ heap'[k].state # "progress")
         => /\ ip'._resolved = ip._resolved
            /\ ip'._rejected = ip._rejected
            /\ ip'._currentReduceResult = ip._currentReduceResult
            /\ ip'._reduceBuffer = ip._reduceBuffer
            /\ \A i \in 1 .. Len(trace') : trace'[i].ev \notin {"reduce", "end"}]_vars

\* a mapped promise was rejected after the process was settled, and the
\* promise of a resolved key is in none of the two key lists
C16_Witness ==
  /\ heap[IP].state \in {"resolved", "rejected"}
  /\ Len(trace) = 1
  /\ trace[1].ev = "errback"
  /\ trace[1].completed
  /\ \E k \in obs.owned :
       /\ heap[k].state = "resolved"
       /\ k \notin Range(ip._resolved)

\* C17: a promise that was cancelled while in progress stays in the progress
\* state whatever is called on it afterwards, and no observer registered on
\* it, before or after the cancel, is ever invoked.
C17_CancelFreezes ==
  \A p \in Plains :
    obs.cancelled[p] =>
      /\ heap[p].state = "progress"
      /\ \A n \in 1 .. Len(obs.spies) :
           obs.spies[n].pid = p => obs.spies[n].calls = <<>>

\* C18: when a mapped promise settles after the unsettled process was
\* cancelled, neither the reduce function nor the end function is invoked, the
\* resolved and rejected keys and the accumulator stay as they are, and the
\* process stays in the progress state.
C18_CancelAbsorbs ==
  [][\A k \in Keys :
       (/\ obs.cancelled[IP]
        /\ heap[IP].state = "progress"
        /\ k \in obs.owned
        /\ heap[k].state = "progress"
        /\ heap'[k].state # "progress")
         => /\ ip'._resolved = ip._resolved
            /\ ip'._rejected = ip._rejected
            /\ ip'._currentReduceResult = ip._currentReduceResult
            /\ heap'[IP].state = "progress"
            /\ \A i \in 1 .. Len(trace') : trace'[i].ev \notin {"reduce", "end"}]_vars

\* C19: an observer registered with addCallback (addErrback) on a promise
\* that is already resolved (rejected) has been invoked once when the
\* registration returns and is never invoked again: with the arguments of the
\* call that settled the promise and with the context given at registration;
\* it is not put among the listeners, and no registration raises an error.
C19_LateObserver ==
  /\ ~thrown
  /\ \A n \in 1 .. Len(obs.spies) :
       LET spy == obs.spies[n]
           event == heap[spy.pid].events[spy.kind]
       IN spy.late =>
            /\ spy.calls = <<obs.first[spy.pid].args>>
            /\ \A i \in 1 .. Len(event.listeners) : event.listeners[i].handler # Spy(n)
  /\ \A i \in Events :
       (trace[i].ev = "handler" /\ obs.spies[trace[i].key].late) =>
         /\ trace[i].ctx = obs.spies[trace[i].key].ctx
         /\ trace[i].args = obs.first[obs.spies[trace[i].key].pid].args

\* the observer invocations of a call, in order: observer, receiver, arguments
RECURSIVE Notified(_)
Notified(q) ==
  IF q = <<>> THEN <<>>
  ELSE IF Head(q).ev = "handler"
    THEN <<<<Head(q).key, Head(q).ctx, Head(q).args>>>> \o Notified(Tail(q))
    ELSE Notified(Tail(q))

\* the invocations due for the observers of a kind registered on p, in
\* registration order: each with its own context, or p when it has none
RECURSIVE Due(_, _, _, _, _)
Due(spies, n, p, kind, args) ==
  IF n > Len(spies) THEN <<>>
  ELSE IF spies[n].pid = p /\ spies[n].kind = kind
    THEN <<<<n, IF spies[n].ctx = NoContext THEN p ELSE spies[n].ctx, args>>>>
           \o Due(spies, n + 1, p, kind, args)
    ELSE Due(spies, n + 1, p, kind, args)

\* C20: the first resolve (reject) call on a promise in progress that was not
\* cancelled invokes, before it returns, the observers registered for that
\* kind and no other, in the order of their registration, each with its own
\* context as receiver and with the arguments of the call; the promise is then
\* in that state and holds these arguments.
C20_FirstCallNotifies ==
  [][(/\ ~obs.first[Src].called
      /\ obs'.first[Src].called
      /\ ~obs.cancelled[Src])
       => /\ heap'[Src].state = obs'.first[Src].kind
          /\ heap'[Src].events[obs'.first[Src].kind].firedArgs = obs'.first[Src].args
          /\ Notified(trace')
               = Due(obs.spies, 1, Src, obs'.first[Src].kind, obs'.first[Src].args)]_vars

\* the first call on the promise has just invoked two observers, the first
\* registered first, with different receivers
C20_Witness ==
  /\ obs.first[Src].called
  /\ ~obs.first[Src].again
  /\ \E i, j \in Events :
       /\ i < j
       /\ trace[i].ev = "handler"
       /\ trace[j].ev = "handler"
       /\ trace[i].key < trace[j].key
       /\ trace[i].ctx # trace[j].ctx
       /\ trace[i].args = obs.first[Src].args
       /\ heap[Src].events[obs.first[Src].kind].firedArgs = obs.first[Src].args

\* C20 as stated, for every promise in progress, cancelled or not: the first
\* resolve (reject) call invokes the observers of that kind in registration
\* order with their contexts and the arguments of the call, and the promise
\* then holds these arguments.
C20_AnyPending ==
  [][(/\ ~obs.first[Src].called
      /\ obs'.first[Src].called)
       => /\ heap'[Src].events[obs'.first[Src].kind].firedArgs = obs'.first[Src].args
          /\ Notified(trace')
               = Due(obs.spies, 1, Src, obs'.first[Src].kind, obs'.first[Src].args)]_vars

\* the state a branch of pipe stands for
StateOf(action) == IF action = "resolve" THEN "resolved" ELSE "rejected"

\* the promise q is in the given state and holds the given arguments
SettledAs(h, q, state, args) ==
  /\ h[q].state = state
  /\ h[q].events[state].firedArgs = args

\* C21: when the function given to pipe for the branch taken runs on a promise
\* returned by pipe that nobody resolved, rejected or cancelled: an Error-typed
\* return value rejects the returned promise with that error, any other value
\* that is neither a promise nor undefined resolves it with that value, in the
\* resolve branch and in the reject branch alike; when the function returns
\* undefined the returned promise settles in the branch taken, with no
\* arguments.
C21_PipeReturn ==
  [][\A i \in 1 .. Len(trace') :
       (/\ trace'[i].ev = "pipe"
        /\ ~obs.first[trace'[i].key].called
        /\ ~obs.cancelled[trace'[i].key])
         => CASE trace'[i].fn = "error" ->
                   SettledAs(heap', trace'[i].key, "rejected", <<"error">>)
              [] trace'[i].fn = "value" ->
                   SettledAs(heap', trace'[i].key, "resolved", <<"value">>)
              [] trace'[i].fn = "undefined" ->
                   SettledAs(heap', trace'[i].key, StateOf(trace'[i].action), <<>>)
              [] OTHER -> TRUE]_vars

\* the errback given to pipe has just returned a plain value on the rejection
\* of the source, and the returned promise is resolved with it
C21_Witness ==
  /\ heap[Src].state = "rejected"
  /\ \E i \in 1 .. Len(trace) :
       /\ trace[i].ev = "pipe"
       /\ trace[i].action = "reject"
       /\ trace[i].fn = "value"
       /\ SettledAs(heap, trace[i].key, "resolved", <<"value">>)
       /\ ~obs.first[trace[i].key].again

\* C21 as stated: every return value of the function that is not an Error and
\* not a promise, undefined included, resolves the returned promise, in the
\* resolve branch and in the reject branch alike.
C21_AnyValueResolves ==
  [][\A i \in 1 .. Len(trace') :
       (/\ trace'[i].ev = "pipe"
        /\ trace'[i].fn \in {"value", "undefined"}
        /\ ~obs.first[trace'[i].key].called
        /\ ~obs.cancelled[trace'[i].key])
         => heap'[trace'[i].key].state = "resolved"]_vars

\* what the function given to a pipe call for the branch its source settled
\* in is or returns
BranchFn(x) ==
  IF heap[x.src].state = "resolved" THEN x.callback ELSE x.errback

\* C22: for every pipe call whose source has settled in a branch whose
\* function returns a promise: the promise pipe returned is in progress as long
\* as the promise the function returned is, and is otherwise in the same state
\* as that promise, with the same arguments.  It holds for the second pipe of
\* a chain as for the first, so the value at the end of a chain of two such
\* pipes is that of the promise the last function returned.
C22_Adopts ==
  \A n \in 1 .. Len(obs.pipes) :
    LET x == obs.pipes[n]
    IN (heap[x.src].state \in {"resolved", "rejected"} /\ BranchFn(x) = "promise")
         => IF heap[x.aux].state = "progress"
              THEN heap[x.ret].state = "progress"
              ELSE SettledAs(heap, x.ret, heap[x.aux].state,
                             heap[x.aux].events[heap[x.aux].state].firedArgs)

\* a chain of two pipes whose callbacks return Ret and Ret2: Src was resolved,
\* Ret was resolved after the first callback had returned it, Ret2 was
\* resolved after the second had, and the end of the chain holds Ret2's value
C22_Witness ==
  /\ Len(obs.pipes) = 2
  /\ obs.pipes[1].callback = "promise"
  /\ obs.pipes[2].callback = "promise"
  /\ heap[Src].state = "resolved"
  /\ heap[Ret].events.resolved.listeners # <<>>
  /\ heap[Ret2].events.resolved.listeners # <<>>
  /\ SettledAs(heap, Piped, "resolved", ResolveArgs(Ret))
  /\ SettledAs(heap, Piped2, "resolved", ResolveArgs(Ret2))

\* C23: for every pipe call that was given no function for the branch its
\* source has settled in, the promise pipe returned is in the state of the
\* source and holds the arguments of the source.
C23_PassThrough ==
  \A n \in 1 .. Len(obs.pipes) :
    LET x == obs.pipes[n]
    IN (heap[x.src].state \in {"resolved", "rejected"} /\ BranchFn(x) = "none")
         => SettledAs(heap, x.ret, heap[x.src].state,
                      heap[x.src].events[heap[x.src].state].firedArgs)

\* Src.pipe(callback) was called with a callback and no errback while Src was
\* in progress, Src was then rejected, and the returned promise is rejected
\* with the arguments Src was rejected with
C23_Witness ==
  /\ Len(obs.pipes) >= 1
  /\ obs.pipes[1].callback = "undefined"
  /\ obs.pipes[1].errback = "none"
  /\ heap[Src].events.rejected.listeners # <<>>
  /\ SettledAs(heap, Src, "rejected", ResolveArgs(Src))
  /\ SettledAs(heap, Piped, "rejected", ResolveArgs(Src))

\* the entry at which the _launchMap call that invoked the mapping function at
\* entry i returned (0 when it raised an exception instead)
ReturnOf(q, i) ==
  LET Between(j, ev) == Cardinality({m \in (i + 1) .. (j - 1) : q[m].ev = ev})
      js == {j \in (i + 1) .. Len(q) :
               /\ q[j].ev = "launchMapRet"
               /\ Between(j, "launchMap") = Between(j, "launchMapRet")}
  IN IF js = {} THEN 0 ELSE CHOOSE j \in js : \A j2 \in js : j <= j2

\* the reduce step for key k took place between entries i and j and added
\* the value of k to the accumulator
ReducedBetween(q, i, j, k) ==
  \E m \in i .. j, n \in i .. j :
    /\ m < n
    /\ q[m].ev = "reduce" /\ q[m].key = k
    /\ q[n].ev = "reduceRet" /\ q[n].key = k
    /\ q[n].acc = q[m].acc \o ResolveArgs(k)

\* C24: for every dispatch of a new key on a process that is not settled, at
\* the return of the dispatch: the key is among the dispatched keys and the
\* dispatch returns true; when the mapping function returned no value the
\* outstanding count is what it was; when it returned a plain value, falsy or
\* not, the key is among the resolved keys and, a reduce function being
\* attached, the reduce step has run with that value; when it returned a
\* promise in progress the outstanding count is one more than it was.
C24_DispatchByReturn ==
  \A i \in Events :
    (trace[i].ev = "mapFn" /\ ~trace[i].completed /\ ReturnOf(trace, i) # 0)
      => LET j == ReturnOf(trace, i)
             k == trace[i].key
         IN /\ trace[j].flag
            /\ k \in Range(trace[j].mapped)
            /\ trace[i].returned = "undefined" => trace[j].onFly = trace[i].onFly
            /\ trace[i].returned \in {"falsy", "value"} =>
                 /\ k \in Range(trace[j].resolved)
                 /\ ip.reduceFn = "function" => ReducedBetween(trace, i, j, k)
            /\ trace[i].returned = "pending" => trace[j].onFly = trace[i].onFly + 1

\* C25: when the end function calls the feed-forward function it is given
\* with a key, the key is among the dispatched keys when that call returns,
\* and the call returns true for a new key and false for a key already
\* dispatched, as the feed-forward function given to reduce does.
C25_EndFeedsAtOnce ==
  \A i \in Events :
    (trace[i].ev = "end" /\ trace[i].key # NoKey)
      => /\ trace[i].dispatched
         /\ trace[i].returned =
              IF \E m \in 1 .. Len(trace[i].mapped) : equalTestFn(trace[i].key, trace[i].mapped[m])
                THEN "false" ELSE "true"

\* the entry at which the invocation entered at entry i returned (0 when an
\* exception ended it), invocations entered in between being nested in it
Closing(q, i, enter, return) ==
  LET Between(j, ev) == Cardinality({m \in (i + 1) .. (j - 1) : q[m].ev = ev})
      js == {j \in (i + 1) .. Len(q) :
               /\ q[j].ev = return
               /\ Between(j, enter) = Between(j, return)}
  IN IF js = {} THEN 0 ELSE CHOOSE j \in js : \A j2 \in js : j <= j2

\* the accumulator left by the last reduce invocation that returned before
\* entry i of q: first is the initial value, for the reduce invocation of the
\* first resolved key, and before is the accumulator at the start of the call
LastReturned(q, i, first, before) ==
  LET rets == {m \in 1 .. (i - 1) : q[m].ev = "reduceRet"}
  IN IF rets # {} THEN q[CHOOSE m \in rets : \A m2 \in rets : m2 <= m].acc
     ELSE IF q[i].ev = "reduce" /\ q[i].resolved # <<>> /\ q[i].key = q[i].resolved[1]
       THEN first
       ELSE before

\* the accumulator at the start of a call: the initial value when the call is
\* the one that attaches the reduce function
Before ==
  IF ip.reduceFn = "function" THEN ip._currentReduceResult ELSE obs'.init

\* C26: every reduce invocation, for a key k, finds k among the resolved keys
\* and the accumulator as the last reduce invocation that returned left it,
\* the initial value given to reduce for the first one; what it returns, the
\* accumulator it received combined with the settlement arguments of k's
\* promise, is the accumulator when it has returned; and an end invocation
\* finds the accumulator as the last reduce invocation that returned left it.
C26_ReduceFrame ==
  [][\A i \in 1 .. Len(trace') :
       /\ trace'[i].ev = "reduce" =>
            /\ trace'[i].key \in Range(trace'[i].resolved)
            /\ trace'[i].acc = LastReturned(trace', i, obs'.init, Before)
            /\ Closing(trace', i, "reduce", "reduceRet") # 0 =>
                 trace'[Closing(trace', i, "reduce", "reduceRet")].acc
                   = trace'[i].acc \o ResolveArgs(trace'[i].key)
       /\ trace'[i].ev = "end" =>
            trace'[i].acc = LastReturned(trace', i, obs'.init, Before)]_vars

\* the step is the call ee.emit(type, args), for some args
Emits(q, type) == q # <<>> /\ q[1].ev = "emit" /\ q[1].type = type

\* the invocations due when the listeners L are all executed with args, in
\* list order, the listeners E of 'error' being executed with the error after
\* each listener that throws
RECURSIVE Deliveries(_, _, _)
Deliveries(L, E, args) ==
  IF L = <<>> THEN <<>>
  ELSE <<<<Head(L).handler.id, Head(L).context, args>>>>
         \o (IF Head(L).handler.type = "thrower"
               THEN [j \in 1 .. Len(E) |->
                       <<E[j].handler.id, E[j].context, <<ErrorOf(Head(L).handler.id)>>>>]
               ELSE <<>>)
         \o Deliveries(Tail(L), E, args)

NoneThrows(L) == \A i \in 1 .. Len(L) : L[i].handler.type # "thrower"
NoneOnce(L) == \A i \in 1 .. Len(L) : ~L[i].once
NoErrorCb(L) == \A i \in 1 .. Len(L) : ~L[i].errorCb

\* C27: an emit(type, args) on listeners that do not throw invokes every
\* listener that is in the list of type when emit is called, once, with args,
\* in list order, whatever the once and unshift options of the listeners.
C27_EmitInvokesAll ==
  [][\A type \in Types :
       (Emits(trace', type) /\ NoneThrows(ListenersOf(heap, type)))
         => Notified(trace') = Deliveries(ListenersOf(heap, type), <<>>, trace'[1].args)]_vars

\* C28: when listeners of 'foo' throw during an emit, none of them having an
\* errorCb, and 'error' has listeners, which stay registered: emit does not
\* throw, every listener of 'foo' is invoked in list order, the ones after a
\* throwing one included, and the 'error' listeners are invoked with each
\* error thrown.
C28_ErrorChannel ==
  [][(/\ Emits(trace', "foo")
      /\ ~NoneThrows(ListenersOf(heap, "foo"))
      /\ NoErrorCb(ListenersOf(heap, "foo"))
      /\ ListenersOf(heap, "error") # <<>>
      /\ NoneOnce(ListenersOf(heap, "error")))
       => /\ ~thrown'
          /\ Notified(trace') = Deliveries(ListenersOf(heap, "foo"),
                                            ListenersOf(heap, "error"), trace'[1].args)]_vars

\* C29: when a listener of 'foo' throws an error during an emit, no listener
\* of 'foo' having an errorCb and 'error' having no listener or not existing,
\* emit throws, and the error it throws is the error the listener threw.
C29_Rethrows ==
  [][(/\ Emits(trace', "foo")
      /\ NoErrorCb(ListenersOf(heap, "foo"))
      /\ ListenersOf(heap, "error") = <<>>
      /\ \E i \in 1 .. Len(trace') : trace'[i].ev = "throw")
       => /\ thrown'
          /\ \A i \in 1 .. Len(trace') :
               trace'[i].ev = "throw" => LastError(trace') = ErrorOf(trace'[i].key)]_vars

\* what off leaves of a list: the listeners with another handler, in order
RECURSIVE Without(_, _)
Without(L, id) ==
  IF L = <<>> THEN <<>>
  ELSE IF Head(L).handler.id = id THEN Without(Tail(L), id)
  ELSE <<Head(L)>> \o Without(Tail(L), id)

\* C30: when off(type, handler) returns, no listener of type has this
\* handler, however many times and wherever it was registered, and the other
\* listeners of type are registered as before, in the same order.
C30_OffRemovesAll ==
  [][\A type \in Types :
       (trace' # <<>> /\ trace'[1].ev = "off" /\ trace'[1].type = type)
         => ListenersOf(heap', type) = Without(ListenersOf(heap, type), trace'[1].key)]_vars

\* what an emit of type with args delivers on see while its state is s: one
\* invocation per listener, in the order of registration
Delivered(h, type, args, s) ==
  LET L == ListenersOf(h, type)
  IN [i \in 1 .. Len(L) |->
        [ev |-> "handler", key |-> L[i].handler.id, flag |-> FALSE,
         ctx |-> L[i].context, args |-> args, state |-> s]]

\* C31: setState(s, args) on a StateEventEmitter whose state is not s sets
\* the state to s, then emits the event s with args, then emits 'state_change'
\* with s (each listener sees the state s); setState(s) when the state is s
\* changes nothing and emits nothing; setStateSilently(s) sets the state to s
\* and emits nothing.
C31_SetState ==
  [][trace' # <<>> =>
       LET s == trace'[1].type
           calls == SubSeq(trace', 2, Len(trace'))
       IN /\ (trace'[1].ev = "setState" /\ heap[EE].state # s) =>
               /\ heap'[EE].state = s
               /\ calls = Delivered(heap, s, trace'[1].args, s)
                            \o Delivered(heap, "state_change", <<s>>, s)
          /\ (trace'[1].ev = "setState" /\ heap[EE].state = s) =>
               /\ heap' = heap
               /\ calls = <<>>
          /\ trace'[1].ev = "setStateSilently" =>
               /\ heap'[EE].state = s
               /\ calls = <<>>]_vars

\* the keys of the settlements of one kind among the first j of an order
KeysIn(E, kind, j) ==
  LET q == SelectSeq(SubSeq(E, 1, j), LAMBDA e : e.kind = kind)
  IN [i \in 1 .. Len(q) |-> q[i].key]

\* the settlements of the inputs of the array, in the order they happened
Settlements(o) ==
  SelectSeq(o.settled,
            LAMBDA e : \E i \in 1 .. Len(o.call.promises) : o.call.promises[i] = e.key)

\* the same order, the inputs that had settled before the call taken in the
\* order of the array (the order in which the call comes across them)
AsProcessed(o) ==
  LET early == SubSeq(o.settled, 1, o.call.before)
      kindOf(k) == IF \E i \in 1 .. Len(early) : early[i].key = k
                     THEN early[CHOOSE i \in 1 .. Len(early) : early[i].key = k].kind
                     ELSE "none"
      array == [i \in 1 .. Len(o.call.promises) |->
                  [key |-> o.call.promises[i], kind |-> kindOf(o.call.promises[i])]]
      late == [o EXCEPT !.settled = SubSeq(@, o.call.before + 1, Len(@))]
  IN SelectSeq(array, LAMBDA e : e.kind # "none") \o Settlements(late)

\* where whenSome(promises, n) stands after the settlements E: resolved at the
\* n-th resolution, rejected at the rejection that leaves fewer than n inputs
\* able to resolve, with the inputs resolved and rejected up to there
Outcome(E, n, len) ==
  LET hit == {j \in 1 .. Len(E) :
                \/ Len(KeysIn(E, "resolved", j)) = n
                \/ Len(KeysIn(E, "rejected", j)) = len - n + 1}
  IN IF hit = {} THEN [state |-> "progress", args |-> <<>>]
     ELSE LET j == CHOOSE x \in hit : \A y \in hit : x <= y
          IN [state |-> E[j].kind,
              args |-> <<KeysIn(E, "resolved", j), KeysIn(E, "rejected", j)>>]

\* the promise whenSome returned is where E puts it, and was settled by one
\* call with the lists E gives
Follows(E) ==
  LET out == Outcome(E, obs.call.n, Len(obs.call.promises))
  IN /\ heap[Res].state = out.state
     /\ obs.first[Res].called = (out.state # "progress")
     /\ out.state # "progress" =>
          /\ obs.first[Res].kind = out.state
          /\ obs.first[Res].args = out.args
          /\ ~obs.first[Res].again

SomeCalled ==
  /\ obs.call.name \in {"whenSome", "whenAll"}
  /\ obs.call.n >= 1
  /\ obs.call.n <= Len(obs.call.promises)

C39_WhenMap ==
  obs.call.name = "whenMap" =>
    LET promises == obs.call.promises
    IN /\ (\A i \in 1 .. Len(promises) : heap[promises[i]].state = "resolved") =>
            /\ heap[Res].state = "resolved"
            /\ obs.first[Res].args =
                 <<[i \in 1 .. Len(promises) |-> mapBar(ResolveArgs(promises[i]))]>>
            /\ ~obs.first[Res].again
       /\ (\E i \in 1 .. Len(promises) : heap[promises[i]].state = "rejected") =>
            heap[Res].state = "rejected"

\* the dispatched keys whose mapped promise is in progress
InProgress(i, h) == {k \in Range(i._mapped) : h[k].state = "progress"}

\* the dispatched keys for which the mapping function returned a promise or a
\* value that _launchMap tracks
Tracked(i, h) == {k \in Range(i._mapped) : h[k].state # "none"}

\* C33 (amended): in every reachable state _onFly is the number of the
\* dispatched keys whose mapped promise has not settled yet; a key for which
\* the mapping function returned nothing to track is not counted, although
\* it is dispatched and never enters resolvedKeys or rejectedKeys, and a key
\* whose promise settled after the process had settled is not counted either.
C33_OnFlyPending == ip._onFly = Cardinality(InProgress(ip, heap))

\* C33 reaches its case: among the dispatched keys one is in resolvedKeys,
\* one returned nothing to track and the promise of one settled when the
\* process was settled; no promise is in progress and _onFly is 0.
C33_Witness ==
  /\ ip._onFly = 0
  /\ Len(ip._resolved) >= 1
  /\ \E k \in Range(ip._mapped) : heap[k].state = "none"
  /\ \E k \in Range(ip._mapped) :
       /\ heap[k].state \in {"resolved", "rejected"}
       /\ k \notin Range(ip._resolved) \cup Range(ip._rejected)
  /\ isCompleted([heap |-> heap], IP)

\* C33 as stated: _onFly is the number of the dispatched keys that are in
\* neither resolvedKeys nor rejectedKeys.
C33_OnFlyCount ==
  ip._onFly = Cardinality({k \in Range(ip._mapped) :
                             k \notin Range(ip._resolved) \cup Range(ip._rejected)})

\* C34: _onFly is never negative; a call raises it by one for each key it
\* dispatches whose mapping returns something to track, and lowers it by one
\* for each tracked key whose promise settles during the call, a key's
\* promise settling once.
C34_OnFlyCounts ==
  [][/\ ip'._onFly >= 0
     /\ Tracked(ip, heap) \subseteq Tracked(ip', heap')
     /\ Tracked(ip, heap) \ InProgress(ip, heap) \subseteq Tracked(ip', heap') \ InProgress(ip', heap')
     /\ ip'._onFly - ip._onFly =
          Cardinality(Tracked(ip', heap') \ Tracked(ip, heap))
            - Cardinality((Tracked(ip', heap') \ InProgress(ip', heap'))
                            \ (Tracked(ip, heap) \ InProgress(ip, heap)))]_vars

\* C34 reaches its case: tracked promises settled in both ways, before and
\* after a manual completion, keys fed forward, and a promise still counted.
C34_Witness ==
  /\ ip._onFly = 1
  /\ Len(ip._resolved) >= 1
  /\ obs.reduceFed \cup obs.endFed # {}
  /\ \E k \in Tracked(ip, heap) :
       /\ heap[k].state = "rejected"
       /\ k \notin Range(ip._rejected)

\* the keys of the initial sequence are all dispatched at a trace entry: each
\* is among the dispatched keys, or equal to one by equalTestFn
InitialDispatched(e) ==
  ip.to_map # NoArray =>
    \A n \in 1 .. Len(ip.to_map) :
      \E m \in 1 .. Len(e.mapped) : equalTestFn(ip.to_map[n], e.mapped[m])

\* C35: at the first invocation of the end function in a call, and whenever
\* the process is resolved automatically, every key of the initial sequence
\* has been dispatched (no end invocation precedes the call that starts the
\* process, and every later call finds the whole sequence dispatched).
C35_InitialKeysFirst ==
  \A i \in Events :
    (\/ trace[i].ev = "end" /\ \A j \in 1 .. (i - 1) : trace[j].ev # "end"
     \/ trace[i].ev = "endRet" /\ trace[i].flag)
      => InitialDispatched(trace[i])

\* C36: the mapping function is never invoked while the process is settled.
C36_NoMapAfterSettled ==
  \A i \in Events : trace[i].ev = "mapFn" => ~trace[i].completed

\* the reduce invocations of a call
Reduces(q) == {i \in 1 .. Len(q) : q[i].ev = "reduce"}

NoDuplicate(q) == \A i, j \in 1 .. Len(q) : q[i] = q[j] => i = j

\* C37: over every call, resolvedKeys grows by as many keys as there are
\* reduce invocations in the call and entries added to the reduce buffer,
\* the entries it takes off the buffer being reduced in it (so that, from the
\* start, reduce invocations plus buffer length equal the length of
\* resolvedKeys); no key is in resolvedKeys and in rejectedKeys, or twice in
\* one of them.
C37_ReducedOrBuffered ==
  [][/\ Len(ip'._resolved) - Len(ip._resolved) =
          Cardinality(Reduces(trace')) + Len(ip'._reduceBuffer) - Len(ip._reduceBuffer)
     /\ {trace'[i].key : i \in Reduces(trace')} \cup
          {ip'._reduceBuffer[i].key : i \in 1 .. Len(ip'._reduceBuffer)}
            \subseteq Range(ip'._resolved)
     /\ Cardinality({trace'[i].key : i \in Reduces(trace')}) = Cardinality(Reduces(trace'))
     /\ NoDuplicate(ip'._resolved)
     /\ NoDuplicate(ip'._rejected)
     /\ Range(ip'._resolved) \cap Range(ip'._rejected) = {}]_vars

\* C37 reaches its case: reduce(fn) drains two buffered results, one still in
\* the buffer while the other is reduced, next to a rejected key.
C37_Witness ==
  /\ Len(ip._resolved) >= 2
  /\ Len(ip._rejected) >= 1
  /\ \E i \in Events : trace[i].ev = "reduce" /\ trace[i].buf = 1
  /\ Len(ip._reduceBuffer) = 0

\* C38: the reduce function is never invoked while the process is settled.
C38_NoReduceAfterSettled ==
  \A i \in Events : trace[i].ev = "reduce" => ~trace[i].completed

\* C40: a start(array) or map(fn) call on a process that is started invokes
\* nothing and leaves the dispatched keys, _onFly, resolvedKeys, rejectedKeys,
\* the accumulator and every promise as they are.
C40_StartOnce ==
  [][(ip._started /\ trace' # <<>> /\ trace'[1].ev \in {"start", "map"}) =>
       /\ Len(trace') = 1
       /\ ~thrown'
       /\ ip'._mapped = ip._mapped
       /\ ip'._onFly = ip._onFly
       /\ ip'._resolved = ip._resolved
       /\ ip'._rejected = ip._rejected
       /\ ip'._currentReduceResult = ip._currentReduceResult
       /\ ip'.to_map = ip.to_map
       /\ heap' = heap
       /\ obs'.mapCalls = obs.mapCalls]_vars

\* C40 reaches its case: start is called again, with a key that was never
\* dispatched, on a process with a dispatched key outstanding.
C40_Witness ==
  /\ trace # <<>>
  /\ trace[1].ev = "start"
  /\ trace[1].args # NoArray
  /\ \E n \in 1 .. Len(trace[1].args) : trace[1].args[n] \notin Range(ip._mapped)
  /\ ip._onFly >= 1
====
